---- MODULE Spec2Model ----
(***************************************************************************)
(* Slot booking service: the request handler of the API worker (bookings,  *)
(* cancellations, staff slot edits, clear-bookings, slot deletion), one    *)
(* step per DB statement, statements of concurrent requests interleaved.   *)
(***************************************************************************)
EXTENDS Integers, FiniteSets, Sequences, TLC

\* ------------------------------------------------------------------ bounds
NumAttempts == 2
NumStaff == 1
NumStudents == 2
MaxCap == 2
MaxFaults == 2
NumGens == 2
\* iterations a loop of a handler runs before the request counts as hung
MaxLoop == 30
NumClients == 1
NumCalls == 2
NumCancels == 2
NumYears == 4
MaxTicks == 3
MaxOver == 1

Attempts == 1..NumAttempts
Staff == 1..NumStaff
Gens == 1..NumGens
Students == 1..NumStudents
SlotIds == {1, 2}
\* ids of the Booking rows present at start (uuids distinct from the ones the
\* attempts draw: attempt a inserts the row with id a)
InitRows == {0 - k : k \in 1..MaxCap}
ClientIPs == 1..NumClients
Callers == 1..NumCalls
Cancellers == 1..NumCancels
BookingIds == InitRows \cup {a : a \in Attempts}

VARIABLES
    slots,      \* table slots: id -> row (exists, max_capacity, current_bookings)
    bookings,   \* table bookings: set of rows (id, slot_id, student_id)
    att,        \* POST /bookings requests: position and locals of each handler
    stf,        \* staff requests: position and locals of each handler
    emailOn,    \* env.EMAIL_API_URL && env.EMAIL_API_SECRET
    faults,     \* number of DB statements that threw so far
    concurrent, \* some request started while another one was in flight
    init,       \* the slots table at start
    gen,        \* POST /staff/slots/generate requests: position and locals
    slotRows,   \* the rows the generate requests inserted into table slots, in order
    profile,    \* which family of generate request bodies the clients send
    cli,        \* the booking page: state of the useBookingFlow hook and its running handlers
    now,        \* Date.now()
    rateLimits, \* the Map rateLimits: key -> record (set = the key is in the map)
    rlLog,      \* per key, the requests seen in the running window and the last answer
    db,         \* tables subjects, users, slots and bookings with their subject_id columns
    jwtSecretOk, \* env.JWT_SECRET is set and at least 32 characters long
    calls       \* requests to the protected routes and to POST /bookings: position and locals

vars == <<slots, bookings, att, stf, emailOn, faults, concurrent, init, gen, slotRows, profile, cli, now, rateLimits, rlLog, db, jwtSecretOk, calls>>

\* ------------------------------------------------------------------ helpers
Max(x, y) == IF x >= y THEN x ELSE y

NoSlot == [exists |-> FALSE, max_capacity |-> 0, current_bookings |-> 0]
NoRead == [found |-> FALSE, max_capacity |-> 0, current_bookings |-> 0]
NoResp == [status |-> 0, error |-> ""]

FullMsg == "Sorry, this slot is fully booked!"
JustFullMsg == "Sorry, this slot just got fully booked!"

json(status, error) == [status |-> status, error |-> error]

\* SELECT id, max_capacity, current_bookings FROM slots WHERE id = ?
SelectSlot(s) ==
    IF s \in SlotIds /\ slots[s].exists
    THEN [found |-> TRUE, max_capacity |-> slots[s].max_capacity,
          current_bookings |-> slots[s].current_bookings]
    ELSE NoRead

\* SELECT id FROM bookings WHERE slot_id = ? AND student_id = ?
existingRows(s, st) == {b \in bookings : b.slot_id = s /\ b.student_id = st}

\* UPDATE slots SET current_bookings = GREATEST(current_bookings - 1, 0) WHERE id = ?
DecrementFloor(s) ==
    IF s \in SlotIds /\ slots[s].exists
    THEN [slots EXCEPT ![s].current_bookings = Max(slots[s].current_bookings - 1, 0)]
    ELSE slots

\* mutant of UpdateMatches: the WHERE clause without current_bookings = ?
UpdateMatchesAnyCount(s, seen) ==
    /\ s \in SlotIds
    /\ slots[s].exists
    /\ slots[s].current_bookings < slots[s].max_capacity

\* UPDATE slots SET current_bookings = current_bookings + 1
\*  WHERE id = ? AND current_bookings = ? AND current_bookings < max_capacity
UpdateMatches(s, seen) ==
    /\ s \in SlotIds
    /\ slots[s].exists
    /\ slots[s].current_bookings = seen
    /\ slots[s].current_bookings < slots[s].max_capacity

ConditionalIncrement(s, seen) ==
    IF UpdateMatches(s, seen)
    THEN [slots EXCEPT ![s].current_bookings = slots[s].current_bookings + 1]
    ELSE slots

\* mutant of PreCheckFull: > instead of >=
PreCheckFullStrict(slot) == slot.current_bookings > slot.max_capacity

\* slot.current_bookings >= slot.max_capacity
PreCheckFull(slot) == slot.current_bookings >= slot.max_capacity

\* !updatedSlot || updatedSlot.current_bookings <= slot.current_bookings
VerifyLost(updatedSlot, slot) ==
    \/ ~updatedSlot.found
    \/ updatedSlot.current_bookings <= slot.current_bookings

AttInFlight == {a \in Attempts : att[a].pc \notin {"idle", "done"}}
StfInFlight == {p \in Staff : stf[p].pc \notin {"idle", "done"}}
AnyInFlight == AttInFlight # {} \/ StfInFlight # {}
\* number of staff requests started so far
StaffOps == Cardinality({p \in Staff : stf[p].pc # "idle"})

\* request texts of POST /staff/slots/generate
null == [null |-> TRUE]

D(y, m, d) == [form |-> "YYYY-MM-DD", year |-> y, month |-> m, day |-> d]
NoDateStr == [form |-> "", year |-> 0, month |-> 0, day |-> 0]
BadDateStr == [form |-> "other", year |-> 0, month |-> 0, day |-> 0]
NoLunch == [start |-> <<>>, end |-> <<>>]

\* ------------------------------------------------------------------ initial state
IdleAtt == [pc |-> "idle", slotId |-> 0, studentId |-> 0, slot |-> NoRead,
            pre |-> 0, resp |-> NoResp, thrown |-> "none",
            incremented |-> FALSE, inserted |-> FALSE, compensated |-> FALSE,
            writes |-> 0, notified |-> "none"]

IdleStf == [pc |-> "idle", op |-> "none", bookingId |-> 0, slot_id |-> 0,
            resp |-> NoResp]

NoBody ==
    [subjectId |-> "", dates |-> <<>>, startDate |-> NoDateStr, endDate |-> NoDateStr,
     timeRanges |-> <<>>, startTime |-> <<>>, endTime |-> <<>>, duration |-> 0,
     capacity |-> 0, days |-> <<>>, breakTime |-> 0, lunchBreak |-> NoLunch]

IdleGen == [pc |-> "idle", req |-> NoBody, ranges |-> <<>>, targetDateStrs |-> <<>>,
            slots |-> <<>>, i |-> 0, resp |-> NoResp, count |-> 0]

\* selection.slot = null
NoSel == [id |-> 0, maxCapacity |-> 0, currentBookings |-> 0]

IdleCli ==
    [step |-> 1, subject |-> FALSE, slot |-> NoSel,
     slots |-> [s \in SlotIds |->
                   [listed |-> FALSE, maxCapacity |-> 0, currentBookings |-> 0]],
     showSuccess |-> FALSE, isLoading |-> FALSE, isValidating |-> FALSE, toast |-> "",
     v |-> [pc |-> "idle", slotId |-> 0, seen |-> "none"],
     s |-> [pc |-> "idle", slotId |-> 0, seen |-> "none", called |-> FALSE,
            status |-> 0, message |-> ""],
     f |-> "idle"]

\* new Map(): no key has a record
NoRateLimits ==
    [key \in [route : {"login", "booking"}, ip : ClientIPs] |->
        [set |-> FALSE, count |-> 0, resetAt |-> 0]]

NoRlLog ==
    [seen |-> [key \in [route : {"login", "booking"}, ip : ClientIPs] |->
                  [first |-> 0 - 1, total |-> 0, passed |-> 0, windows |-> 0]],
     last |-> [key |-> [route |-> "", ip |-> 0], status |-> 0],
     ticks |-> 0]

\* no request of caller c yet; authorization is the header as sent
NoHeader == [scheme |-> "none", token |-> "none"]
IdleCall == [pc |-> "idle", method |-> "", path |-> "", authorization |-> NoHeader,
             subjectId |-> 0, slotId |-> 0, resp |-> NoResp]

\* subjects 1 and 2, one user, one slot of subject 1 with one booking
InitDb ==
    [subjects |-> {1, 2}, users |-> {1},
     slots |-> {[id |-> 1, subject_id |-> 1, max_capacity |-> MaxCap, current_bookings |-> 1]},
     bookings |-> {[id |-> 0, slot_id |-> 1, subject_id |-> 1]}]

\* slot 1 holds k bookings of the students 1..k; slot 2 is the id of a slot that
\* is no longer there
InitSlots(cap, k) ==
    [s \in SlotIds |->
        IF s = 1 THEN [exists |-> TRUE, max_capacity |-> cap, current_bookings |-> k]
        ELSE NoSlot]

InitBookings(k) ==
    {[id |-> 0 - j, slot_id |-> 1, student_id |-> j] : j \in 1..k}

Init ==
    \E cap \in 1..MaxCap :
      \E k \in 0..cap :
        /\ k <= NumStudents
        /\ slots = InitSlots(cap, k)
        /\ bookings = InitBookings(k)
        /\ init = InitSlots(cap, k)
        /\ att = [a \in Attempts |-> IdleAtt]
        /\ stf = [p \in Staff |-> IdleStf]
        /\ emailOn \in BOOLEAN
        /\ faults = 0
        /\ concurrent = FALSE
        /\ gen = [g \in Gens |-> IdleGen]
        /\ slotRows = <<>>
        /\ profile = "none"
        /\ cli = IdleCli
        /\ now = 0
        /\ rateLimits = NoRateLimits
        /\ rlLog = NoRlLog
        /\ db = InitDb
        /\ jwtSecretOk = TRUE
        /\ calls = [c \in Callers |-> IdleCall]

\* ------------------------------------------------------------------ POST /bookings
Fields == {"ids", "name", "studentId", "email"}

\* the request bodies: the fields that fail validation, the slot and the requester
Requests == [slotId : SlotIds, studentId : Students, invalid : SUBSET Fields]

\* the first failing check of the handler, "" when all pass
Validate(data) ==
    IF "ids" \in data.invalid THEN "Invalid slot or subject ID"
    ELSE IF "name" \in data.invalid THEN "Student name must be 2-255 characters"
    ELSE IF "studentId" \in data.invalid THEN "Invalid student ID"
    ELSE IF "email" \in data.invalid THEN "Invalid email address"
    ELSE ""

\* mutant of Finish: the response is built and the handler goes on
FinishWithoutReturn(a, rec, status, error) ==
    att' = [att EXCEPT ![a] = [rec EXCEPT !.resp = json(status, error)]]

Finish(a, rec, status, error) ==
    att' = [att EXCEPT ![a] = [rec EXCEPT !.pc = "done", !.resp = json(status, error)]]

\* request arrival and field validation
BookRequest(a, data) ==
    /\ att[a].pc = "idle"
    /\ IF a = 1 THEN TRUE ELSE att[a - 1].pc # "idle"
    /\ IF Validate(data) # ""
       THEN Finish(a, att[a], 400, Validate(data))
       ELSE att' = [att EXCEPT ![a].pc = "dup",
                               ![a].slotId = data.slotId,
                               ![a].studentId = data.studentId,
                               ![a].pre = SelectSlot(data.slotId).current_bookings]
    /\ concurrent' = (concurrent \/ AnyInFlight)
    /\ UNCHANGED <<slots, bookings, stf, emailOn, faults, init, gen, slotRows, profile, cli, now, rateLimits, rlLog, db, jwtSecretOk, calls>>

\* duplicate check
BookDupCheck(a) ==
    /\ att[a].pc = "dup"
    /\ IF existingRows(att[a].slotId, att[a].studentId) # {}
       THEN Finish(a, att[a], 400, "You have already booked this slot")
       ELSE att' = [att EXCEPT ![a].pc = "check"]
    /\ UNCHANGED <<slots, bookings, stf, emailOn, faults, concurrent, init, gen, slotRows, profile, cli, now, rateLimits, rlLog, db, jwtSecretOk, calls>>

\* mutant of BookSlotCheck: the seat is taken before the slot is looked at
BookSlotCheckReserveFirst(a) ==
    /\ att[a].pc = "check"
    /\ LET slot == SelectSlot(att[a].slotId) IN
         /\ slots' = IF slot.found
                     THEN [slots EXCEPT ![att[a].slotId].current_bookings =
                              slot.current_bookings + 1]
                     ELSE slots
         /\ IF ~slot.found THEN Finish(a, att[a], 400, "Slot no longer exists")
            ELSE IF PreCheckFull(slot)
                 THEN Finish(a, att[a], 409, "Sorry, this slot is fully booked!")
                 ELSE att' = [att EXCEPT ![a].pc = "update", ![a].slot = slot]
    /\ UNCHANGED <<bookings, stf, emailOn, faults, concurrent, init, gen, slotRows, profile, cli, now, rateLimits, rlLog, db, jwtSecretOk, calls>>

\* slot availability pre-check
BookSlotCheck(a) ==
    /\ att[a].pc = "check"
    /\ LET slot == SelectSlot(att[a].slotId) IN
         IF ~slot.found THEN Finish(a, att[a], 400, "Slot no longer exists")
         ELSE IF PreCheckFull(slot)
              THEN Finish(a, att[a], 409, "Sorry, this slot is fully booked!")
              ELSE att' = [att EXCEPT ![a].pc = "update", ![a].slot = slot]
    /\ UNCHANGED <<slots, bookings, stf, emailOn, faults, concurrent, init, gen, slotRows, profile, cli, now, rateLimits, rlLog, db, jwtSecretOk, calls>>

\* the conditional UPDATE
BookUpdate(a) ==
    /\ att[a].pc = "update"
    /\ slots' = ConditionalIncrement(att[a].slotId, att[a].slot.current_bookings)
    /\ att' = [att EXCEPT ![a].pc = "verify",
                          ![a].incremented = (slots' # slots),
                          ![a].writes = att[a].writes + 1]
    /\ UNCHANGED <<bookings, stf, emailOn, faults, concurrent, init, gen, slotRows, profile, cli, now, rateLimits, rlLog, db, jwtSecretOk, calls>>

\* the verification re-read
BookVerify(a) ==
    /\ att[a].pc = "verify"
    /\ LET updatedSlot == SelectSlot(att[a].slotId) IN
         IF VerifyLost(updatedSlot, att[a].slot)
         THEN Finish(a, att[a], 409, "Sorry, this slot just got fully booked!")
         ELSE att' = [att EXCEPT ![a].pc = "insert"]
    /\ UNCHANGED <<slots, bookings, stf, emailOn, faults, concurrent, init, gen, slotRows, profile, cli, now, rateLimits, rlLog, db, jwtSecretOk, calls>>

\* INSERT INTO bookings succeeds
BookInsert(a) ==
    /\ att[a].pc = "insert"
    /\ bookings' = bookings \cup
          {[id |-> a, slot_id |-> att[a].slotId, student_id |-> att[a].studentId]}
    /\ LET rec == [att[a] EXCEPT !.inserted = TRUE, !.writes = att[a].writes + 1] IN
         IF emailOn
         THEN att' = [att EXCEPT ![a] = [rec EXCEPT !.pc = "details"]]
         ELSE Finish(a, rec, 200, "")
    /\ UNCHANGED <<slots, stf, emailOn, faults, concurrent, init, gen, slotRows, profile, cli, now, rateLimits, rlLog, db, jwtSecretOk, calls>>

\* INSERT INTO bookings throws: the catch block is entered
BookInsertFail(a) ==
    /\ att[a].pc = "insert"
    /\ faults < MaxFaults
    /\ faults' = faults + 1
    /\ att' = [att EXCEPT ![a].pc = "comp", ![a].thrown = "insertError"]
    /\ UNCHANGED <<slots, bookings, stf, emailOn, concurrent, init, gen, slotRows, profile, cli, now, rateLimits, rlLog, db, jwtSecretOk, calls>>

\* mutant of BookCompensate: insertError is rethrown without the decrement
BookCompensateSkipped(a) ==
    /\ att[a].pc = "comp"
    /\ Finish(a, [att[a] EXCEPT !.compensated = TRUE], 500, "Server error")
    /\ UNCHANGED <<slots, bookings, stf, emailOn, faults, concurrent, init, gen, slotRows, profile, cli, now, rateLimits, rlLog, db, jwtSecretOk, calls>>

\* the compensating UPDATE, then throw insertError to the outer catch
BookCompensate(a) ==
    /\ att[a].pc = "comp"
    /\ slots' = DecrementFloor(att[a].slotId)
    /\ Finish(a, [att[a] EXCEPT !.compensated = TRUE, !.writes = att[a].writes + 1],
              500, "Server error")
    /\ UNCHANGED <<bookings, stf, emailOn, faults, concurrent, init, gen, slotRows, profile, cli, now, rateLimits, rlLog, db, jwtSecretOk, calls>>

\* the slot/subject lookup for the e-mail, the fire-and-forget send, the response
BookDetails(a, delivered) ==
    /\ att[a].pc = "details"
    /\ LET slotInfo == SelectSlot(att[a].slotId)
           rec == [att[a] EXCEPT !.notified =
                      IF ~slotInfo.found THEN "none"
                      ELSE IF delivered THEN "sent" ELSE "failed"] IN
         Finish(a, rec, 200, "")
    /\ UNCHANGED <<slots, bookings, stf, emailOn, faults, concurrent, init, gen, slotRows, profile, cli, now, rateLimits, rlLog, db, jwtSecretOk, calls>>

\* a db.execute of the handler throws: the outer catch answers 500
BookFault(a) ==
    /\ att[a].pc \in {"dup", "check", "update", "verify", "comp", "details"}
    /\ faults < MaxFaults
    /\ faults' = faults + 1
    /\ Finish(a, [att[a] EXCEPT !.thrown = "dbError"], 500, "Server error")
    /\ UNCHANGED <<slots, bookings, stf, emailOn, concurrent, init, gen, slotRows, profile, cli, now, rateLimits, rlLog, db, jwtSecretOk, calls>>

\* ------------------------------------------------------------------ staff requests
StfStart(p) ==
    /\ stf[p].pc = "idle"
    /\ IF p = 1 THEN TRUE ELSE stf[p - 1].pc # "idle"
    /\ concurrent' = (concurrent \/ AnyInFlight)

StfFinish(p, rec, status, error) ==
    stf' = [stf EXCEPT ![p] = [rec EXCEPT !.pc = "done", !.resp = json(status, error)]]

\* DELETE /staff/bookings/:id, up to the SELECT; bookingId 0 is the empty id
CancelSelect(p, bookingId) ==
    /\ StfStart(p)
    /\ LET rec == [stf[p] EXCEPT !.op = "cancel", !.bookingId = bookingId]
           bookingsRows == {b \in bookings : b.id = bookingId} IN
         IF bookingId = 0 THEN StfFinish(p, rec, 400, "Invalid booking ID")
         ELSE IF bookingsRows = {} THEN StfFinish(p, rec, 404, "Booking not found")
         ELSE \E booking \in bookingsRows :
                 stf' = [stf EXCEPT ![p] = [rec EXCEPT !.pc = "c_delete",
                                                       !.slot_id = booking.slot_id]]
    /\ UNCHANGED <<slots, bookings, att, emailOn, faults, init, gen, slotRows, profile, cli, now, rateLimits, rlLog, db, jwtSecretOk, calls>>

\* mutant of CancelDelete: DELETE FROM bookings WHERE slot_id = ?
CancelDeleteWholeSlot(p) ==
    /\ stf[p].pc = "c_delete"
    /\ bookings' = {b \in bookings : b.slot_id # stf[p].slot_id}
    /\ stf' = [stf EXCEPT ![p].pc = "c_update"]
    /\ UNCHANGED <<slots, att, emailOn, faults, concurrent, init, gen, slotRows, profile, cli, now, rateLimits, rlLog, db, jwtSecretOk, calls>>

\* DELETE FROM bookings WHERE id = ?
CancelDelete(p) ==
    /\ stf[p].pc = "c_delete"
    /\ bookings' = {b \in bookings : b.id # stf[p].bookingId}
    /\ stf' = [stf EXCEPT ![p].pc = "c_update"]
    /\ UNCHANGED <<slots, att, emailOn, faults, concurrent, init, gen, slotRows, profile, cli, now, rateLimits, rlLog, db, jwtSecretOk, calls>>

\* UPDATE slots SET current_bookings = GREATEST(current_bookings - 1, 0)
CancelUpdate(p) ==
    /\ stf[p].pc = "c_update"
    /\ slots' = DecrementFloor(stf[p].slot_id)
    /\ StfFinish(p, stf[p], 200, "")
    /\ UNCHANGED <<bookings, att, emailOn, faults, concurrent, init, gen, slotRows, profile, cli, now, rateLimits, rlLog, db, jwtSecretOk, calls>>

\* PUT /staff/slots/:id with a maxCapacity in the body
EditSlot(p, slotId, maxCapacity) ==
    /\ StfStart(p)
    /\ slots' = IF slots[slotId].exists
                THEN [slots EXCEPT ![slotId].max_capacity = maxCapacity]
                ELSE slots
    /\ StfFinish(p, [stf[p] EXCEPT !.op = "edit", !.slot_id = slotId], 200, "")
    /\ UNCHANGED <<bookings, att, emailOn, faults, init, gen, slotRows, profile, cli, now, rateLimits, rlLog, db, jwtSecretOk, calls>>

\* POST /staff/clear-bookings: DELETE FROM bookings
ClearDelete(p) ==
    /\ StfStart(p)
    /\ bookings' = {}
    /\ stf' = [stf EXCEPT ![p].op = "clear", ![p].pc = "clr_update"]
    /\ UNCHANGED <<slots, att, emailOn, faults, init, gen, slotRows, profile, cli, now, rateLimits, rlLog, db, jwtSecretOk, calls>>

\* POST /staff/clear-bookings: UPDATE slots SET current_bookings = 0
ClearUpdate(p) ==
    /\ stf[p].pc = "clr_update"
    /\ slots' = [s \in SlotIds |->
                    IF slots[s].exists THEN [slots[s] EXCEPT !.current_bookings = 0]
                    ELSE slots[s]]
    /\ StfFinish(p, stf[p], 200, "")
    /\ UNCHANGED <<bookings, att, emailOn, faults, concurrent, init, gen, slotRows, profile, cli, now, rateLimits, rlLog, db, jwtSecretOk, calls>>

\* DELETE /staff/slots/:id: DELETE FROM bookings WHERE slot_id = ?
DeleteSlotBookings(p, slotId) ==
    /\ StfStart(p)
    /\ bookings' = {b \in bookings : b.slot_id # slotId}
    /\ stf' = [stf EXCEPT ![p].op = "deleteSlot", ![p].pc = "ds_slot",
                          ![p].slot_id = slotId]
    /\ UNCHANGED <<slots, att, emailOn, faults, init, gen, slotRows, profile, cli, now, rateLimits, rlLog, db, jwtSecretOk, calls>>

\* DELETE /staff/slots/:id: DELETE FROM slots WHERE id = ?
DeleteSlotRow(p) ==
    /\ stf[p].pc = "ds_slot"
    /\ slots' = [slots EXCEPT ![stf[p].slot_id] = NoSlot]
    /\ StfFinish(p, stf[p], 200, "")
    /\ UNCHANGED <<bookings, att, emailOn, faults, concurrent, init, gen, slotRows, profile, cli, now, rateLimits, rlLog, db, jwtSecretOk, calls>>

\* a db.execute of a staff handler throws: the outer catch answers 500
StaffFault(p) ==
    /\ stf[p].pc \in {"c_delete", "c_update", "clr_update", "ds_slot"}
    /\ faults < MaxFaults
    /\ faults' = faults + 1
    /\ StfFinish(p, stf[p], 500, "Server error")
    /\ UNCHANGED <<slots, bookings, att, emailOn, concurrent, init, gen, slotRows, profile, cli, now, rateLimits, rlLog, db, jwtSecretOk, calls>>

\* ------------------------------------------------------------------ specification
Next ==
    \/ \E a \in Attempts, data \in Requests : BookRequest(a, data)
    \/ \E a \in Attempts : BookDupCheck(a)
    \/ \E a \in Attempts : BookSlotCheck(a)
    \/ \E a \in Attempts : BookUpdate(a)
    \/ \E a \in Attempts : BookVerify(a)
    \/ \E a \in Attempts : BookInsert(a)
    \/ \E a \in Attempts : BookInsertFail(a)
    \/ \E a \in Attempts : BookCompensate(a)
    \/ \E a \in Attempts, delivered \in BOOLEAN : BookDetails(a, delivered)
    \/ \E a \in Attempts : BookFault(a)
    \/ \E p \in Staff, bookingId \in BookingIds \cup {0} : CancelSelect(p, bookingId)
    \/ \E p \in Staff : CancelDelete(p)
    \/ \E p \in Staff : CancelUpdate(p)
    \/ \E p \in Staff, slotId \in SlotIds, maxCapacity \in 0..MaxCap :
          EditSlot(p, slotId, maxCapacity)
    \/ \E p \in Staff : ClearDelete(p)
    \/ \E p \in Staff : ClearUpdate(p)
    \/ \E p \in Staff, slotId \in SlotIds : DeleteSlotBookings(p, slotId)
    \/ \E p \in Staff : DeleteSlotRow(p)
    \/ \E p \in Staff : StaffFault(p)

Spec == Init /\ [][Next]_vars

\* ------------------------------------------------------------------ POST /staff/slots/generate
\* A text is modelled by what the handler reads from it. A date text of the
\* form YYYY-MM-DD carries its three digit groups; "" is the empty or absent
\* text, "other" a text the pattern does not match. A time text HH:MM is the
\* pair of its two numbers, <<>> the absent one. Absent lists are <<>>.
BATCH_SIZE == 50

\* the remainder of JavaScript's %: it has the sign of the dividend
JsRem(a, n) == IF a >= 0 THEN a % n ELSE 0 - ((0 - a) % n)

\* validateString(subjectId, 1, 36)
validSubject(subjectId) == subjectId # ""

\* mutant of ranges: no fallback to the old format
rangesNewFormatOnly(req) == req.timeRanges

\* timeRanges && timeRanges.length > 0 ? timeRanges
\*   : [{ startTime: startTime || '09:00', endTime: endTime || '17:00' }]
ranges(req) ==
    IF Len(req.timeRanges) > 0 THEN req.timeRanges
    ELSE <<[startTime |-> IF req.startTime # <<>> THEN req.startTime ELSE <<9, 0>>,
            endTime |-> IF req.endTime # <<>> THEN req.endTime ELSE <<17, 0>>]>>

parseTimeToMinutes(timeStr) == timeStr[1] * 60 + timeStr[2]

\* "HH:MM:00"
minutesToTimeStr(mins) == <<mins \div 60, JsRem(mins, 60), 0>>

\* lunchBreak?.start && lunchBreak?.end
lunchGiven(lunchBreak) == lunchBreak.start # <<>> /\ lunchBreak.end # <<>>
lunchStartMin(lunchBreak) ==
    IF lunchGiven(lunchBreak) THEN parseTimeToMinutes(lunchBreak.start) ELSE 0
lunchEndMin(lunchBreak) ==
    IF lunchGiven(lunchBreak) THEN parseTimeToMinutes(lunchBreak.end) ELSE 0

parseDateStr(dateStr) ==
    IF dateStr.form = "YYYY-MM-DD"
    THEN [year |-> dateStr.year, month |-> dateStr.month, day |-> dateStr.day]
    ELSE null

\* mutant of getDayOfWeek: January and February are not moved to months 13
\* and 14 of the year before
getDayOfWeekNoShift(year, month, day) ==
    LET k == JsRem(year, 100)
        j == year \div 100
        h == JsRem(day + (13 * (month + 1)) \div 5 + k + k \div 4 + j \div 4 - 2 * j, 7)
    IN JsRem(h + 6, 7)

\* mutant of getDayOfWeek: Zeller's h (0 = Saturday) is returned as it is
getDayOfWeekZeller(year, month, day) ==
    LET m == IF month < 3 THEN month + 12 ELSE month
        y == IF month < 3 THEN year - 1 ELSE year
        k == JsRem(y, 100)
        j == y \div 100
    IN JsRem(day + (13 * (m + 1)) \div 5 + k + k \div 4 + j \div 4 - 2 * j, 7)

getDayOfWeek(year, month, day) ==
    LET m == IF month < 3 THEN month + 12 ELSE month
        y == IF month < 3 THEN year - 1 ELSE year
        q == day
        k == JsRem(y, 100)
        j == y \div 100
        h == JsRem(q + (13 * (m + 1)) \div 5 + k + k \div 4 + j \div 4 - 2 * j, 7)
    IN JsRem(h + 6, 7)

\* mutant of leapYear: every fourth year
leapYearEveryFourth(year) == JsRem(year, 4) = 0

\* (year % 4 === 0 && year % 100 !== 0) || year % 400 === 0
leapYear(year) ==
    (JsRem(year, 4) = 0 /\ JsRem(year, 100) # 0) \/ JsRem(year, 400) = 0

\* daysInMonth[month] for the array of `year`; 0 stands for undefined
daysInMonth(year, month) ==
    IF month \in 1..12
    THEN <<31, IF leapYear(year) THEN 29 ELSE 28, 31, 30, 31, 30, 31, 31, 30, 31, 30, 31>>[month]
    ELSE 0

\* the while loop of addDays: day > undefined is false, day > daysInMonth[0] is day > 0
RECURSIVE addDaysLoop(_, _, _)
addDaysLoop(year, month, day) ==
    IF month \in 0..12 /\ day > daysInMonth(year, month)
    THEN IF month + 1 > 12
         THEN addDaysLoop(year + 1, 1, day - daysInMonth(year, month))
         ELSE addDaysLoop(year, month + 1, day - daysInMonth(year, month))
    ELSE [year |-> year, month |-> month, day |-> day]

addDays(year, month, day, daysToAdd) == addDaysLoop(year, month, day + daysToAdd)

compareDates(a, b) ==
    IF a.year # b.year THEN a.year - b.year
    ELSE IF a.month # b.month THEN a.month - b.month
    ELSE a.day - b.day

\* `${current.year}-${pad(current.month)}-${pad(current.day)}`
formatDate(current) == D(current.year, current.month, current.day)

\* !days || days.length === 0 || days.includes(dow)
keepDay(days, dow) == Len(days) = 0 \/ \E i \in 1..Len(days) : days[i] = dow

\* recurring mode: the walk from start to end
RECURSIVE walkDates(_, _, _, _, _)
walkDates(current, end, days, targetDateStrs, fuel) ==
    IF ~(compareDates(current, end) <= 0)
    THEN [error |-> "", hung |-> FALSE, targetDateStrs |-> targetDateStrs]
    ELSE IF fuel = 0
    THEN [error |-> "", hung |-> TRUE, targetDateStrs |-> targetDateStrs]
    ELSE walkDates(addDays(current.year, current.month, current.day, 1), end, days,
                   IF keepDay(days, getDayOfWeek(current.year, current.month, current.day))
                   THEN Append(targetDateStrs, formatDate(current))
                   ELSE targetDateStrs,
                   fuel - 1)

\* mutant of validDates: dates.filter(d => d)
validDatesNonEmpty(dates) == SelectSeq(dates, LAMBDA d : d # NoDateStr)

\* dates.filter(d => d && parseDateStr(d))
validDates(dates) == SelectSeq(dates, LAMBDA d : d # NoDateStr /\ parseDateStr(d) # null)

\* the target dates, or the error of the recurring branch
resolveDates(req) ==
    IF Len(req.dates) > 0
    THEN [error |-> "", hung |-> FALSE, targetDateStrs |-> validDates(req.dates)]
    ELSE IF req.startDate # NoDateStr
    THEN LET start == parseDateStr(req.startDate)
             end == IF req.endDate # NoDateStr THEN parseDateStr(req.endDate) ELSE start
         IN IF start = null \/ end = null
            THEN [error |-> "Invalid date format", hung |-> FALSE, targetDateStrs |-> <<>>]
            ELSE walkDates(start, end, req.days, <<>>, MaxLoop)
    ELSE [error |-> "", hung |-> FALSE, targetDateStrs |-> <<>>]

\* lunchBreak && lunchStartMin && lunchEndMin && currMin < lunchEndMin
\*   && slotEndMin > lunchStartMin
lunchSkip(lunchBreak, currMin, slotEndMin) ==
    /\ lunchBreak # NoLunch
    /\ lunchStartMin(lunchBreak) # 0
    /\ lunchEndMin(lunchBreak) # 0
    /\ currMin < lunchEndMin(lunchBreak)
    /\ slotEndMin > lunchStartMin(lunchBreak)

\* mutant of fits: < instead of <=
fitsStrictly(currMin, duration, endMin) == currMin + duration < endMin

\* currMin + duration <= endMin
fits(currMin, duration, endMin) == currMin + duration <= endMin

\* the row pushed for a slot; uuid() is the handler and the position in slots
slotRow(g, req, dateStr, currMin, n) ==
    [id |-> <<g, n>>,
     start_time |-> [date |-> dateStr, time |-> minutesToTimeStr(currMin)],
     duration |-> req.duration, max_capacity |-> req.capacity, current_bookings |-> 0]

\* the while loop over one time range
RECURSIVE walkRange(_, _, _, _, _, _, _)
walkRange(g, req, dateStr, endMin, currMin, rows, fuel) ==
    IF ~fits(currMin, req.duration, endMin) THEN [hung |-> FALSE, slots |-> rows]
    ELSE IF fuel = 0 THEN [hung |-> TRUE, slots |-> rows]
    ELSE IF lunchSkip(req.lunchBreak, currMin, currMin + req.duration)
    THEN walkRange(g, req, dateStr, endMin, lunchEndMin(req.lunchBreak), rows, fuel - 1)
    ELSE walkRange(g, req, dateStr, endMin, currMin + (req.duration + req.breakTime),
                   Append(rows, slotRow(g, req, dateStr, currMin, Len(rows) + 1)),
                   fuel - 1)

\* for (const range of ranges)
RECURSIVE walkRanges(_, _, _, _, _)
walkRanges(g, req, dateStr, rest, acc) ==
    IF rest = <<>> \/ acc.hung THEN acc
    ELSE walkRanges(g, req, dateStr, Tail(rest),
                    walkRange(g, req, dateStr,
                              parseTimeToMinutes(Head(rest).endTime),
                              parseTimeToMinutes(Head(rest).startTime),
                              acc.slots, MaxLoop))

\* for (const dateStr of targetDateStrs)
RECURSIVE expand(_, _, _, _)
expand(g, req, rest, acc) ==
    IF rest = <<>> \/ acc.hung THEN acc
    ELSE expand(g, req, Tail(rest), walkRanges(g, req, Head(rest), ranges(req), acc))

\* mutant of noSlots: the request goes on with no slot
noSlotsIgnored(rows) == FALSE

\* slots.length === 0
noSlots(rows) == Len(rows) = 0

GenReply(rec, status, error) == [rec EXCEPT !.pc = "done", !.resp = json(status, error)]

\* the handler from the request to the first INSERT
Generate(g, req) ==
    LET target == resolveDates(req)
        expanded == expand(g, req, target.targetDateStrs, [hung |-> FALSE, slots |-> <<>>])
        rec == [IdleGen EXCEPT !.req = req]
        ranged == [rec EXCEPT !.ranges = ranges(req)]
        dated == [ranged EXCEPT !.targetDateStrs = target.targetDateStrs]
    IN IF ~validSubject(req.subjectId) THEN GenReply(rec, 400, "Invalid subject ID")
       ELSE IF target.error # "" THEN GenReply(ranged, 400, target.error)
       ELSE IF target.hung THEN [ranged EXCEPT !.pc = "hung"]
       ELSE IF Len(target.targetDateStrs) = 0
       THEN GenReply(dated, 400, "No valid dates provided")
       ELSE IF expanded.hung THEN [dated EXCEPT !.pc = "hung"]
       ELSE IF noSlots(expanded.slots) THEN GenReply(dated, 400, "No slots generated")
       ELSE IF 0 < Len(expanded.slots)
       THEN [dated EXCEPT !.pc = "insert", !.slots = expanded.slots]
       ELSE [GenReply(dated, 200, "") EXCEPT !.count = 0]

\* ------------------------------------------------------------------ generate: requests
\* the request bodies the staff clients send
ExplicitDates ==
    {<<D(2024, 2, 29)>>,
     <<D(2024, 2, 29), D(2024, 3, 1)>>,
     <<D(2024, 3, 1), D(2024, 2, 29)>>,
     <<D(2024, 2, 29), D(2024, 2, 29)>>,
     <<BadDateStr>>,
     <<BadDateStr, NoDateStr>>,
     <<BadDateStr, D(2024, 3, 1)>>}

RecurringRanges ==
    {<<D(2024, 2, 26), D(2024, 3, 2)>>,
     <<D(2024, 2, 28), D(2024, 3, 1)>>,
     <<D(2023, 2, 28), D(2023, 3, 1)>>,
     <<D(1900, 2, 28), D(1900, 3, 1)>>,
     <<D(2000, 2, 28), D(2000, 3, 1)>>,
     <<D(2100, 2, 28), D(2100, 3, 1)>>,
     <<D(2023, 12, 30), D(2024, 1, 2)>>,
     <<D(2024, 4, 29), D(2024, 5, 1)>>,
     <<D(2024, 3, 2), D(2024, 2, 26)>>,
     <<D(2024, 1, 15), NoDateStr>>,
     <<BadDateStr, D(2024, 3, 1)>>,
     <<D(2024, 2, 26), BadDateStr>>}

DayFilters == {<<>>, <<4>>, <<0, 6>>, <<1, 2, 3>>}

DateSpecs ==
    {[dates |-> l, startDate |-> NoDateStr, endDate |-> NoDateStr, days |-> <<>>] :
        l \in ExplicitDates}
    \cup {[dates |-> <<>>, startDate |-> r[1], endDate |-> r[2], days |-> f] :
            r \in RecurringRanges, f \in DayFilters}
    \cup {[dates |-> <<>>, startDate |-> NoDateStr, endDate |-> NoDateStr, days |-> <<>>]}

Window(s, e) == [startTime |-> s, endTime |-> e]

WindowSpecs ==
    {[timeRanges |-> w, startTime |-> <<>>, endTime |-> <<>>] :
        w \in {<<>>,
               <<Window(<<9, 0>>, <<10, 0>>)>>,
               <<Window(<<9, 0>>, <<10, 0>>), Window(<<9, 30>>, <<10, 30>>)>>,
               <<Window(<<9, 0>>, <<10, 0>>), Window(<<13, 0>>, <<14, 0>>)>>,
               <<Window(<<11, 0>>, <<14, 0>>)>>,
               <<Window(<<0, 0>>, <<2, 0>>)>>,
               <<Window(<<9, 0>>, <<9, 10>>)>>}}
    \cup {[timeRanges |-> <<>>, startTime |-> <<10, 0>>, endTime |-> <<11, 0>>],
          [timeRanges |-> <<>>, startTime |-> <<16, 0>>, endTime |-> <<>>]}

Durations == {20, 30}
BreakTimes == {0, 10}
LunchBreaks ==
    {NoLunch,
     [start |-> <<12, 0>>, end |-> <<13, 0>>],
     [start |-> <<0, 0>>, end |-> <<1, 0>>],
     [start |-> <<9, 30>>, end |-> <<9, 45>>]}

Body(subjectId, ds, w, duration, breakTime, lunchBreak) ==
    [subjectId |-> subjectId, dates |-> ds.dates, startDate |-> ds.startDate,
     endDate |-> ds.endDate, timeRanges |-> w.timeRanges, startTime |-> w.startTime,
     endTime |-> w.endTime, duration |-> duration, capacity |-> 1, days |-> ds.days,
     breakTime |-> breakTime, lunchBreak |-> lunchBreak]

\* one request at a time, over the whole family of bodies
ExpandBodies ==
    {Body("subject-1", ds, w, du, b, l) :
        ds \in DateSpecs, w \in WindowSpecs, du \in Durations, b \in BreakTimes,
        l \in LunchBreaks}
    \cup {Body("", ds, w, 20, 0, NoLunch) : ds \in DateSpecs, w \in WindowSpecs}

NoWindow == [timeRanges |-> <<>>, startTime |-> <<>>, endTime |-> <<>>]
Recurring(s, e, f) == [dates |-> <<>>, startDate |-> s, endDate |-> e, days |-> f]

\* requests that run side by side, over a few bodies
PersistBodies ==
    {Body("subject-1", Recurring(D(2024, 2, 26), D(2024, 3, 2), <<4>>),
          [timeRanges |-> <<Window(<<9, 0>>, <<10, 0>>)>>, startTime |-> <<>>,
           endTime |-> <<>>], 20, 0, NoLunch),
     Body("subject-1", Recurring(D(2024, 2, 28), D(2024, 3, 1), <<>>), NoWindow,
          20, 0, NoLunch),
     Body("subject-1", Recurring(D(2024, 2, 28), D(2024, 3, 1), <<0>>), NoWindow,
          20, 0, NoLunch),
     Body("subject-1",
          [dates |-> <<BadDateStr, NoDateStr>>, startDate |-> NoDateStr,
           endDate |-> NoDateStr, days |-> <<>>], NoWindow, 20, 0, NoLunch)}

\* one request at a time, over durations, breaks and dates the handler does
\* not validate: zero and negative durations, negative breaks, a month 13
WalkBodies ==
    {Body("subject-1", ds, w, du, b, l) :
        ds \in {[dates |-> <<D(2024, 2, 29)>>, startDate |-> NoDateStr,
                 endDate |-> NoDateStr, days |-> <<>>],
                [dates |-> <<D(2024, 2, 29), D(2024, 3, 1)>>, startDate |-> NoDateStr,
                 endDate |-> NoDateStr, days |-> <<>>],
                [dates |-> <<>>, startDate |-> D(2024, 2, 28), endDate |-> D(2024, 3, 1),
                 days |-> <<>>],
                [dates |-> <<>>, startDate |-> D(2024, 12, 30), endDate |-> D(2024, 13, 2),
                 days |-> <<>>],
                [dates |-> <<>>, startDate |-> D(2024, 13, 1), endDate |-> D(2025, 1, 1),
                 days |-> <<>>]},
        w \in {[timeRanges |-> r, startTime |-> <<>>, endTime |-> <<>>] :
                  r \in {<<Window(<<9, 0>>, <<11, 0>>)>>,
                         <<Window(<<9, 0>>, <<10, 0>>), Window(<<9, 30>>, <<10, 30>>)>>,
                         <<Window(<<9, 0>>, <<9, 10>>)>>,
                         <<Window(<<10, 0>>, <<9, 0>>)>>}},
        du \in {0 - 20, 0, 20, 30},
        b \in {0 - 30, 0 - 10, 0, 10, 30},
        l \in {NoLunch,
               [start |-> <<9, 30>>, end |-> <<9, 45>>],
               [start |-> <<9, 0>>, end |-> <<9, 20>>],
               [start |-> <<12, 0>>, end |-> <<13, 0>>]}}

\* the years of the requests that ask for one weekday of one day: three
\* century years and NumYears years from 2023 on
WeekdayYears == {1900, 2000, 2100} \cup (2023..(2022 + NumYears))
\* the days of a year as date texts
DatesOf(y) ==
    {dt \in {D(y, m, d) : m \in 1..12, d \in 1..31} :
        dt.day <= (IF dt.month \in {4, 6, 9, 11} THEN 30
                   ELSE IF dt.month # 2 THEN 31
                   ELSE IF (y % 4 = 0 /\ y % 100 # 0) \/ y % 400 = 0 THEN 29 ELSE 28)}
\* one request at a time: the range is one day, the filter one weekday
WeekdayBodies ==
    {Body("subject-1", [dates |-> <<>>, startDate |-> d, endDate |-> d, days |-> <<w>>],
          [timeRanges |-> <<Window(<<9, 0>>, <<10, 0>>)>>, startTime |-> <<>>,
           endTime |-> <<>>], 30, 0, NoLunch) :
        d \in UNION {DatesOf(y) : y \in WeekdayYears}, w \in 0..6}

GenBodies ==
    IF profile = "expand" THEN ExpandBodies
    ELSE IF profile = "persist" THEN PersistBodies
    ELSE IF profile = "walk" THEN WalkBodies
    ELSE IF profile = "weekday" THEN WeekdayBodies
    ELSE {}

GenClients == IF profile = "persist" THEN Gens ELSE {1}
\* the handlers that have not received their request yet
GenWaiting == {g \in GenClients : gen[g].pc = "idle"}

\* ------------------------------------------------------------------ generate: steps
\* the request arrives; validation, date resolution and expansion
GenRequest(g, req) ==
    /\ gen[g].pc = "idle"
    /\ IF g = 1 THEN TRUE ELSE gen[g - 1].pc # "idle"
    /\ gen' = [gen EXCEPT ![g] = Generate(g, req)]
    /\ UNCHANGED <<slots, bookings, att, stf, emailOn, faults, concurrent, init,
                   slotRows, profile, cli, now, rateLimits, rlLog, db, jwtSecretOk, calls>>

\* slots.slice(i, i + BATCH_SIZE)
batchOf(rows, i) ==
    SubSeq(rows, i + 1, IF i + BATCH_SIZE < Len(rows) THEN i + BATCH_SIZE ELSE Len(rows))

GenAfterBatch(g) ==
    IF gen[g].i + BATCH_SIZE < Len(gen[g].slots)
    THEN [gen EXCEPT ![g].i = gen[g].i + BATCH_SIZE]
    ELSE [gen EXCEPT ![g] = [GenReply(gen[g], 200, "") EXCEPT
                                !.i = gen[g].i + BATCH_SIZE,
                                !.count = Len(gen[g].slots)]]

\* mutant of GenInsertBatch: a row whose start_time is stored already is left out
GenInsertBatchDedup(g) ==
    /\ gen[g].pc = "insert"
    /\ slotRows' = slotRows \o
          SelectSeq(batchOf(gen[g].slots, gen[g].i),
                    LAMBDA r : \A k \in 1..Len(slotRows) :
                                   slotRows[k].start_time # r.start_time)
    /\ gen' = GenAfterBatch(g)
    /\ UNCHANGED <<slots, bookings, att, stf, emailOn, faults, concurrent, init, profile, cli, now, rateLimits, rlLog, db, jwtSecretOk, calls>>

\* one multi-row INSERT INTO slots, then the next batch or the response
GenInsertBatch(g) ==
    /\ gen[g].pc = "insert"
    /\ slotRows' = slotRows \o batchOf(gen[g].slots, gen[g].i)
    /\ gen' = GenAfterBatch(g)
    /\ UNCHANGED <<slots, bookings, att, stf, emailOn, faults, concurrent, init, profile, cli, now, rateLimits, rlLog, db, jwtSecretOk, calls>>

\* mutant of GenInsertFail: the failed INSERT is issued again instead of ending the request
GenInsertFailRetried(g) ==
    /\ gen[g].pc = "insert"
    /\ faults < MaxFaults
    /\ faults' = faults + 1
    /\ UNCHANGED <<slots, bookings, att, stf, emailOn, concurrent, init, gen, slotRows, profile, cli, now, rateLimits, rlLog, db, jwtSecretOk, calls>>

\* the INSERT throws: the outer catch answers 500
GenInsertFail(g) ==
    /\ gen[g].pc = "insert"
    /\ faults < MaxFaults
    /\ faults' = faults + 1
    /\ gen' = [gen EXCEPT ![g] = GenReply(gen[g], 500, "Server error")]
    /\ UNCHANGED <<slots, bookings, att, stf, emailOn, concurrent, init, slotRows, profile, cli, now, rateLimits, rlLog, db, jwtSecretOk, calls>>

InitGen ==
    /\ slots = InitSlots(1, 0)
    /\ bookings = InitBookings(0)
    /\ init = InitSlots(1, 0)
    /\ att = [a \in Attempts |-> IdleAtt]
    /\ stf = [p \in Staff |-> IdleStf]
    /\ emailOn = FALSE
    /\ faults = 0
    /\ concurrent = FALSE
    /\ gen = [g \in Gens |-> IdleGen]
    /\ slotRows = <<>>
    /\ profile \in {"expand", "persist"}
    /\ cli = IdleCli
    /\ now = 0
    /\ rateLimits = NoRateLimits
    /\ rlLog = NoRlLog
    /\ db = InitDb
    /\ jwtSecretOk = TRUE
    /\ calls = [c \in Callers |-> IdleCall]

NextGen ==
    \/ \E g \in GenWaiting, req \in GenBodies : GenRequest(g, req)
    \/ \E g \in Gens : GenInsertBatch(g)
    \/ \E g \in Gens : GenInsertFail(g)

SpecGen == InitGen /\ [][NextGen]_vars

\* the same handler under the requests of WalkBodies
InitWalk ==
    /\ slots = InitSlots(1, 0)
    /\ bookings = InitBookings(0)
    /\ init = InitSlots(1, 0)
    /\ att = [a \in Attempts |-> IdleAtt]
    /\ stf = [p \in Staff |-> IdleStf]
    /\ emailOn = FALSE
    /\ faults = 0
    /\ concurrent = FALSE
    /\ gen = [g \in Gens |-> IdleGen]
    /\ slotRows = <<>>
    /\ profile = "walk"
    /\ cli = IdleCli
    /\ now = 0
    /\ rateLimits = NoRateLimits
    /\ rlLog = NoRlLog
    /\ db = InitDb
    /\ jwtSecretOk = TRUE
    /\ calls = [c \in Callers |-> IdleCall]

SpecWalk == InitWalk /\ [][NextGen]_vars

\* the same handler under the requests of WeekdayBodies
InitWeekday ==
    /\ slots = InitSlots(1, 0)
    /\ bookings = InitBookings(0)
    /\ init = InitSlots(1, 0)
    /\ att = [a \in Attempts |-> IdleAtt]
    /\ stf = [p \in Staff |-> IdleStf]
    /\ emailOn = FALSE
    /\ faults = 0
    /\ concurrent = FALSE
    /\ gen = [g \in Gens |-> IdleGen]
    /\ slotRows = <<>>
    /\ profile = "weekday"
    /\ cli = IdleCli
    /\ now = 0
    /\ rateLimits = NoRateLimits
    /\ rlLog = NoRlLog
    /\ db = InitDb
    /\ jwtSecretOk = TRUE
    /\ calls = [c \in Callers |-> IdleCall]

SpecWeekday == InitWeekday /\ [][NextGen]_vars

\* ------------------------------------------------------------------ booking client (useBookingFlow)
FACULTY == 1
TIME == 2
DETAILS == 3

SLOT_UNAVAILABLE == "This slot is no longer available. Please select another."
SLOT_FULL == "Sorry, this slot just got fully booked!"
LOAD_FAILED == "Failed to load data. Please refresh."
FORM_INCOMPLETE == "Please complete all required fields."
RequestFailed == "Request failed"

\* the slot list of the hook: id -> Slot object, listed = the id is in the array
NotListed == [listed |-> FALSE, maxCapacity |-> 0, currentBookings |-> 0]
NoList == [s \in SlotIds |-> NotListed]

\* GET /slots/:subjectId answered from the table as it is now
getSlots ==
    [s \in SlotIds |->
        IF slots[s].exists
        THEN [listed |-> TRUE, maxCapacity |-> slots[s].max_capacity,
              currentBookings |-> slots[s].current_bookings]
        ELSE NotListed]

\* freshSlots.find(s => s.id === slotId), NoSel when there is none
find(freshSlots, slotId) ==
    IF slotId \in SlotIds /\ freshSlots[slotId].listed
    THEN [id |-> slotId, maxCapacity |-> freshSlots[slotId].maxCapacity,
          currentBookings |-> freshSlots[slotId].currentBookings]
    ELSE NoSel

\* mutant of validateSlotAvailability: spotsLeft < 0 instead of <= 0
validateSlotAvailabilityStrict(freshSlots, slotId) ==
    LET freshSlot == find(freshSlots, slotId) IN
      IF freshSlot = NoSel THEN NoSel
      ELSE IF freshSlot.maxCapacity - freshSlot.currentBookings < 0 THEN NoSel
      ELSE freshSlot

\* the part of validateSlotAvailability after the fetch: the fresh slot or null
validateSlotAvailability(freshSlots, slotId) ==
    LET freshSlot == find(freshSlots, slotId) IN
      IF freshSlot = NoSel THEN NoSel
      ELSE IF freshSlot.maxCapacity - freshSlot.currentBookings <= 0 THEN NoSel
      ELSE freshSlot

\* mutant of stillAvailable: the slot is looked up by id alone
stillAvailableById(freshSlots, slotId) == find(freshSlots, slotId)

\* freshSlots.find(s => s.id === selection.slot?.id && s.currentBookings < s.maxCapacity)
stillAvailable(freshSlots, slotId) ==
    LET s == find(freshSlots, slotId) IN
      IF s # NoSel /\ s.currentBookings < s.maxCapacity THEN s ELSE NoSel

cliFrame == <<bookings, att, stf, emailOn, concurrent, init, gen, slotRows, profile,
              now, rateLimits, rlLog, db, jwtSecretOk, calls>>

\* a fetch of the client throws (network error or a non-2xx answer)
FetchFails ==
    /\ faults < MaxFaults
    /\ faults' = faults + 1
    /\ UNCHANGED <<slots, cliFrame>>

FetchAnswers == UNCHANGED <<slots, faults, cliFrame>>

\* ---- validateAndContinue (the Continue button of the TIME step)
ValidateStart ==
    /\ ~cli.showSuccess /\ cli.step = TIME /\ cli.subject /\ ~cli.isValidating
    /\ cli.v.pc = "idle"
    /\ IF cli.slot = NoSel
       THEN cli' = [cli EXCEPT !.toast = "Please select a time slot"]
       ELSE cli' = [cli EXCEPT !.isValidating = TRUE,
                               !.toast = "Checking availability...",
                               !.v = [pc |-> "check", slotId |-> cli.slot.id,
                                      seen |-> "none"]]
    /\ FetchAnswers

\* the answer of validateSlotAvailability's fetch
ValidateCheck ==
    /\ cli.v.pc = "check"
    /\ LET freshSlot == validateSlotAvailability(getSlots, cli.v.slotId) IN
         IF freshSlot = NoSel
         THEN cli' = [cli EXCEPT !.toast = SLOT_UNAVAILABLE,
                                 !.v.pc = "refresh", !.v.seen = "unavailable"]
         ELSE cli' = [cli EXCEPT !.slot = freshSlot, !.step = DETAILS, !.toast = "",
                                 !.isValidating = FALSE,
                                 !.v.pc = "idle", !.v.seen = "available"]
    /\ FetchAnswers

\* validateSlotAvailability's fetch throws: its catch returns null
ValidateCheckFail ==
    /\ cli.v.pc = "check"
    /\ cli' = [cli EXCEPT !.toast = SLOT_UNAVAILABLE,
                          !.v.pc = "refresh", !.v.seen = "failed"]
    /\ FetchFails

\* the refresh after a failed check: setSlots, selection.slot = null
ValidateRefresh ==
    /\ cli.v.pc = "refresh"
    /\ cli' = [cli EXCEPT !.slots = getSlots, !.slot = NoSel, !.isValidating = FALSE,
                          !.v.pc = "idle"]
    /\ FetchAnswers

\* the refresh throws: catch shows LOAD_FAILED
ValidateRefreshFail ==
    /\ cli.v.pc = "refresh"
    /\ cli' = [cli EXCEPT !.toast = LOAD_FAILED, !.isValidating = FALSE,
                          !.v.pc = "idle"]
    /\ FetchFails

\* ---- submitBooking (the submit button of the DETAILS step)
SubmitStart(formComplete) ==
    /\ ~cli.showSuccess /\ cli.step = DETAILS /\ cli.subject /\ cli.slot # NoSel
    /\ ~cli.isLoading /\ cli.s.pc = "idle"
    /\ IF ~formComplete
       THEN cli' = [cli EXCEPT !.toast = FORM_INCOMPLETE]
       ELSE cli' = [cli EXCEPT !.isLoading = TRUE,
                               !.s = [pc |-> "check", slotId |-> cli.slot.id,
                                      seen |-> "none", called |-> FALSE,
                                      status |-> 0, message |-> ""]]
    /\ FetchAnswers

\* mutant of SubmitCheck: createBooking is called whatever the check returned
SubmitCheckIgnored ==
    /\ cli.s.pc = "check"
    /\ LET freshSlot == validateSlotAvailability(getSlots, cli.s.slotId) IN
         cli' = [cli EXCEPT !.s.pc = "create", !.s.called = TRUE,
                            !.s.seen = IF freshSlot = NoSel THEN "unavailable"
                                       ELSE "available"]
    /\ FetchAnswers

\* the answer of the final validation's fetch
SubmitCheck ==
    /\ cli.s.pc = "check"
    /\ LET freshSlot == validateSlotAvailability(getSlots, cli.s.slotId) IN
         IF freshSlot = NoSel
         THEN cli' = [cli EXCEPT !.toast = SLOT_FULL,
                                 !.s.pc = "refresh", !.s.seen = "unavailable"]
         ELSE cli' = [cli EXCEPT !.s.pc = "create", !.s.seen = "available",
                                 !.s.called = TRUE]
    /\ FetchAnswers

SubmitCheckFail ==
    /\ cli.s.pc = "check"
    /\ cli' = [cli EXCEPT !.toast = SLOT_FULL, !.s.pc = "refresh", !.s.seen = "failed"]
    /\ FetchFails

\* the refresh after a failed final check: setSlots, selection.slot = null, TIME
SubmitRefresh ==
    /\ cli.s.pc = "refresh"
    /\ cli' = [cli EXCEPT !.slots = getSlots, !.slot = NoSel, !.step = TIME,
                          !.isLoading = FALSE, !.s.pc = "idle"]
    /\ FetchAnswers

\* the refresh throws: the catch block starts its own refresh
SubmitRefreshFail ==
    /\ cli.s.pc = "refresh"
    /\ cli' = [cli EXCEPT !.s.pc = "catch", !.s.message = RequestFailed]
    /\ FetchFails

\* POST /bookings answers 200: a seat of the slot is taken
CreateBooked ==
    /\ cli.s.pc = "create"
    /\ UpdateMatches(cli.s.slotId, slots[cli.s.slotId].current_bookings)
    /\ slots' = ConditionalIncrement(cli.s.slotId, slots[cli.s.slotId].current_bookings)
    /\ cli' = [cli EXCEPT !.showSuccess = TRUE, !.isLoading = FALSE,
                          !.s.pc = "idle", !.s.status = 200]
    /\ UNCHANGED <<faults, cliFrame>>

\* POST /bookings answers 400 or 409: handleResponse throws Error(data.error)
CreateRejected(status) ==
    /\ cli.s.pc = "create"
    /\ IF status = 409 THEN slots[cli.s.slotId].exists ELSE status = 400
    /\ cli' = [cli EXCEPT !.s.pc = "catch", !.s.status = status,
                          !.s.message = IF status = 409
                                        THEN IF PreCheckFull(SelectSlot(cli.s.slotId))
                                             THEN FullMsg ELSE JustFullMsg
                                        ELSE IF slots[cli.s.slotId].exists
                                             THEN "You have already booked this slot"
                                             ELSE "Slot no longer exists"]
    /\ FetchAnswers

\* mutant of CreateFail: the success modal is shown although the request failed
CreateFailShowsSuccess ==
    /\ cli.s.pc = "create"
    /\ cli' = [cli EXCEPT !.showSuccess = TRUE, !.isLoading = FALSE,
                          !.s.pc = "idle", !.s.status = 500]
    /\ FetchFails

\* POST /bookings answers 500 or the request fails
CreateFail ==
    /\ cli.s.pc = "create"
    /\ cli' = [cli EXCEPT !.s.pc = "catch", !.s.status = 500,
                          !.s.message = "Server error"]
    /\ FetchFails

\* the catch block's refresh: setSlots, then the slot is kept only if still available
SubmitCatch ==
    /\ cli.s.pc = "catch"
    /\ IF stillAvailable(getSlots, cli.s.slotId) = NoSel
       THEN cli' = [cli EXCEPT !.slots = getSlots, !.toast = SLOT_FULL,
                               !.slot = NoSel, !.step = TIME,
                               !.isLoading = FALSE, !.s.pc = "idle"]
       ELSE cli' = [cli EXCEPT !.slots = getSlots, !.toast = cli.s.message,
                               !.isLoading = FALSE, !.s.pc = "idle"]
    /\ FetchAnswers

\* mutant of SubmitCatchFail: the failed refresh leaves the handler before finally
SubmitCatchFailNoFinally ==
    /\ cli.s.pc = "catch"
    /\ cli' = [cli EXCEPT !.toast = cli.s.message, !.s.pc = "idle"]
    /\ FetchFails

\* the catch block's refresh throws: ignored, the message is shown
SubmitCatchFail ==
    /\ cli.s.pc = "catch"
    /\ cli' = [cli EXCEPT !.toast = cli.s.message, !.isLoading = FALSE,
                          !.s.pc = "idle"]
    /\ FetchFails

\* ---- the other handlers of the hook
selectFaculty ==
    /\ ~cli.showSuccess /\ cli.step = FACULTY /\ cli.f = "idle"
    /\ cli' = [cli EXCEPT !.subject = TRUE, !.slot = NoSel,
                          !.toast = "Loading schedule...", !.f = "load"]
    /\ FetchAnswers

FacultyLoaded ==
    /\ cli.f = "load"
    /\ cli' = [cli EXCEPT !.slots = getSlots, !.step = TIME, !.toast = "", !.f = "idle"]
    /\ FetchAnswers

FacultyLoadFail ==
    /\ cli.f = "load"
    /\ cli' = [cli EXCEPT !.toast = LOAD_FAILED, !.f = "idle"]
    /\ FetchFails

selectDate ==
    /\ ~cli.showSuccess /\ cli.step = TIME /\ cli.subject
    /\ cli.slot # NoSel
    /\ cli' = [cli EXCEPT !.slot = NoSel]
    /\ FetchAnswers

selectSlot(slotId) ==
    /\ ~cli.showSuccess /\ cli.step = TIME /\ cli.subject
    /\ find(cli.slots, slotId) # NoSel
    /\ ~(find(cli.slots, slotId).currentBookings >= find(cli.slots, slotId).maxCapacity)
    /\ cli.slot # find(cli.slots, slotId)
    /\ cli' = [cli EXCEPT !.slot = find(cli.slots, slotId)]
    /\ FetchAnswers

\* the Back buttons: goToStep(FACULTY) on the TIME step, goToStep(TIME) on DETAILS
goToStep(newStep) ==
    /\ ~cli.showSuccess
    /\ \/ cli.step = TIME /\ cli.subject /\ newStep = FACULTY
       \/ cli.step = DETAILS /\ cli.subject /\ cli.slot # NoSel /\ newStep = TIME
    /\ cli' = [cli EXCEPT !.step = newStep]
    /\ FetchAnswers

reset ==
    /\ cli.showSuccess
    /\ cli' = [cli EXCEPT !.step = FACULTY, !.subject = FALSE, !.slot = NoSel,
                          !.slots = NoList, !.showSuccess = FALSE]
    /\ FetchAnswers

\* ---- what other users and staff do to the slot meanwhile
OthersBook(s) ==
    /\ UpdateMatches(s, slots[s].current_bookings)
    /\ slots' = ConditionalIncrement(s, slots[s].current_bookings)
    /\ UNCHANGED <<cli, faults, cliFrame>>

OthersCancel(s) ==
    /\ slots[s].exists /\ slots[s].current_bookings > 0
    /\ slots' = DecrementFloor(s)
    /\ UNCHANGED <<cli, faults, cliFrame>>

SlotRemoved(s) ==
    /\ slots[s].exists
    /\ slots' = [slots EXCEPT ![s] = NoSlot]
    /\ UNCHANGED <<cli, faults, cliFrame>>

InitClient ==
    \E cap \in 1..MaxCap :
      \E k \in 0..cap :
        /\ slots = InitSlots(cap, k)
        /\ bookings = {}
        /\ init = InitSlots(cap, k)
        /\ att = [a \in Attempts |-> IdleAtt]
        /\ stf = [p \in Staff |-> IdleStf]
        /\ emailOn = FALSE
        /\ faults = 0
        /\ concurrent = FALSE
        /\ gen = [g \in Gens |-> IdleGen]
        /\ slotRows = <<>>
        /\ profile = "none"
        /\ cli = IdleCli
        /\ now = 0
        /\ rateLimits = NoRateLimits
        /\ rlLog = NoRlLog
        /\ db = InitDb
        /\ jwtSecretOk = TRUE
        /\ calls = [c \in Callers |-> IdleCall]

NextClient ==
    \/ ValidateStart
    \/ ValidateCheck
    \/ ValidateCheckFail
    \/ ValidateRefresh
    \/ ValidateRefreshFail
    \/ \E formComplete \in BOOLEAN : SubmitStart(formComplete)
    \/ SubmitCheck
    \/ SubmitCheckFail
    \/ SubmitRefresh
    \/ SubmitRefreshFail
    \/ CreateBooked
    \/ \E status \in {400, 409} : CreateRejected(status)
    \/ CreateFail
    \/ SubmitCatch
    \/ SubmitCatchFail
    \/ selectFaculty
    \/ FacultyLoaded
    \/ FacultyLoadFail
    \/ selectDate
    \/ \E slotId \in SlotIds : selectSlot(slotId)
    \/ \E newStep \in {FACULTY, TIME} : goToStep(newStep)
    \/ reset
    \/ \E s \in SlotIds : OthersBook(s)
    \/ \E s \in SlotIds : OthersCancel(s)
    \/ \E s \in SlotIds : SlotRemoved(s)

SpecClient == InitClient /\ [][NextClient]_vars

\* every pending call of validateAndContinue and of submitBooking settles: the
\* awaited promise resolves or rejects and the handler runs on
ValidateSettles ==
    ValidateCheck \/ ValidateCheckFail \/ ValidateRefresh \/ ValidateRefreshFail
SubmitSettles ==
    \/ SubmitCheck \/ SubmitCheckFail \/ SubmitRefresh \/ SubmitRefreshFail
    \/ CreateBooked \/ (\E status \in {400, 409} : CreateRejected(status)) \/ CreateFail
    \/ SubmitCatch \/ SubmitCatchFail

\* one slot with one free seat at start
InitSettling == InitClient /\ slots = InitSlots(1, 0)

SpecClientSettling ==
    InitSettling /\ [][NextClient]_vars
        /\ WF_vars(ValidateSettles) /\ WF_vars(SubmitSettles)

\* ------------------------------------------------------------------ rate limiting
windowMs == 60000
maxLogin == 5
maxBookings == 10

Routes == {"login", "booking"}
\* `login:${clientIP}` and `booking:${clientIP}`
RlKeys == [route : Routes, ip : ClientIPs]
maxRequests(key) == IF key.route = "login" THEN maxLogin ELSE maxBookings

\* !record || now > record.resetAt
noRecord(key) == ~rateLimits[key].set \/ now > rateLimits[key].resetAt

\* the map after isRateLimited(key, ...)
rateLimitsAfter(key) ==
    IF noRecord(key)
    THEN [rateLimits EXCEPT ![key] = [set |-> TRUE, count |-> 1,
                                      resetAt |-> now + windowMs]]
    ELSE [rateLimits EXCEPT ![key].count = rateLimits[key].count + 1]

\* mutant of isRateLimited: >= instead of >
isRateLimitedAtLimit(key) ==
    IF noRecord(key) THEN FALSE ELSE rateLimits[key].count + 1 >= maxRequests(key)

\* the value isRateLimited(key, maxRequests, windowMs) returns
isRateLimited(key) ==
    IF noRecord(key) THEN FALSE ELSE rateLimits[key].count + 1 > maxRequests(key)

\* what an observer of the key's requests counts: the time of the first request
\* of the running window, the requests of the window and those that passed
Observed(key, status) ==
    LET o == rlLog.seen[key]
        expired == o.first < 0 \/ now > o.first + windowMs
        total == IF expired THEN 1 ELSE o.total + 1
        passed == (IF expired THEN 0 ELSE o.passed) + (IF status = 429 THEN 0 ELSE 1) IN
      [rlLog EXCEPT !.seen[key] = [first |-> IF expired THEN now ELSE o.first,
                                   total |-> total, passed |-> passed,
                                   windows |-> o.windows + (IF expired THEN 1 ELSE 0)],
                    !.last = [key |-> key, status |-> status]]

rateFrame == <<att, stf, emailOn, faults, concurrent, init, gen, slotRows, profile, cli,
               db, jwtSecretOk, calls>>

\* Date.now() moves on
Tick(d) ==
    /\ rlLog.ticks < MaxTicks
    /\ now' = now + d
    /\ rlLog' = [rlLog EXCEPT !.ticks = rlLog.ticks + 1]
    /\ UNCHANGED <<rateLimits, slots, bookings, rateFrame>>

\* the request is counted; at most MaxOver requests per window come after the
\* last one that passes
Counted(key) ==
    /\ noRecord(key) \/ rateLimits[key].count < maxRequests(key) + MaxOver
    /\ rateLimits' = rateLimitsAfter(key)

\* any request to /login
LoginRequest(ip) ==
    LET key == [route |-> "login", ip |-> ip] IN
      /\ Counted(key)
      /\ rlLog' = Observed(key, IF isRateLimited(key) THEN 429 ELSE 200)
      /\ UNCHANGED <<now, slots, bookings, rateFrame>>

\* POST /bookings: behind the limiter the request is admitted or rejected
BookingRequest(ip, s, student) ==
    LET key == [route |-> "booking", ip |-> ip]
        admitted == UpdateMatches(s, slots[s].current_bookings)
                    /\ existingRows(s, student) = {} IN
      /\ Counted(key)
      /\ IF isRateLimited(key)
         THEN /\ rlLog' = Observed(key, 429)
              /\ UNCHANGED <<slots, bookings>>
         ELSE IF admitted
              THEN /\ slots' = ConditionalIncrement(s, slots[s].current_bookings)
                   /\ bookings' = bookings \cup
                         {[id |-> student, slot_id |-> s, student_id |-> student]}
                   /\ rlLog' = Observed(key, 200)
              ELSE /\ rlLog' = Observed(key, IF existingRows(s, student) # {}
                                              \/ ~slots[s].exists THEN 400 ELSE 409)
                   /\ UNCHANGED <<slots, bookings>>
      /\ UNCHANGED <<now, rateFrame>>

InitRate ==
    /\ slots = InitSlots(MaxCap, 0)
    /\ bookings = {}
    /\ init = InitSlots(MaxCap, 0)
    /\ att = [a \in Attempts |-> IdleAtt]
    /\ stf = [p \in Staff |-> IdleStf]
    /\ emailOn = FALSE
    /\ faults = 0
    /\ concurrent = FALSE
    /\ gen = [g \in Gens |-> IdleGen]
    /\ slotRows = <<>>
    /\ profile = "none"
    /\ cli = IdleCli
    /\ now = 0
    /\ rateLimits = NoRateLimits
    /\ rlLog = NoRlLog
    /\ db = InitDb
    /\ jwtSecretOk = TRUE
    /\ calls = [c \in Callers |-> IdleCall]

NextRate ==
    \/ \E d \in {1, windowMs} : Tick(d)
    \/ \E ip \in ClientIPs : LoginRequest(ip)
    \/ \E ip \in ClientIPs, student \in Students : BookingRequest(ip, 1, student)

SpecRate == InitRate /\ [][NextRate]_vars

\* ------------------------------------------------------------------ protected routes
SubjectIds == {1, 2}

\* the tokens a caller may hold: issued by createJWT and still running ("good"),
\* with exp equal to the current second ("last"), with exp in the past
\* ("expired"), signed with another secret ("forged"), not three parts ("garbage")
Tokens == {"good", "last", "expired", "forged", "garbage"}
\* Authorization: Bearer <token>, Authorization: <token>, Authorization: Basic <token>
Headers == {NoHeader} \cup [scheme : {"Bearer", "raw", "Basic"}, token : Tokens]

nowSec == now \div 1000
exp(token) == IF token = "expired" THEN nowSec - 1
              ELSE IF token = "last" THEN nowSec
              ELSE nowSec + 1

\* request.headers.get('Authorization')?.replace('Bearer ', '') || null
getToken(authorization) ==
    IF authorization.scheme = "none" THEN null
    ELSE [prefix |-> IF authorization.scheme = "Basic" THEN "Basic " ELSE "",
          token |-> authorization.token]

\* mutant of verifyJWT: the exp claim is not looked at
verifyJWTNoExpiry(text) ==
    IF text.token = "garbage" THEN null
    ELSE IF text.prefix # "" \/ text.token = "forged" THEN null
    ELSE [username |-> "staff"]

\* the payload of a token with three parts, a matching HMAC and exp >= now
verifyJWT(text) ==
    IF text.token = "garbage" THEN null
    ELSE IF text.prefix # "" \/ text.token = "forged" THEN null
    ELSE IF exp(text.token) < nowSec THEN null
    ELSE [username |-> "staff"]

authCheck(authorization) ==
    IF getToken(authorization) = null THEN null ELSE verifyJWT(getToken(authorization))

\* the requests sent to paths under /staff
StaffRoutes ==
    {[method |-> "DELETE", path |-> "/staff/subjects/:id"],
     [method |-> "DELETE", path |-> "/staff/users/:id"],
     [method |-> "POST", path |-> "/staff/slots/generate"],
     [method |-> "GET", path |-> "/staff/unknown"],
     [method |-> "OPTIONS", path |-> "/staff/subjects/:id"],
     [method |-> "OPTIONS", path |-> "/staff/users/:id"]}

\* the first statement of the route's handler
FirstStep(route) ==
    IF route = [method |-> "DELETE", path |-> "/staff/subjects/:id"] THEN "ds_bookings"
    ELSE IF route = [method |-> "DELETE", path |-> "/staff/users/:id"] THEN "du_user"
    ELSE IF route = [method |-> "POST", path |-> "/staff/slots/generate"] THEN "g_insert"
    ELSE "none"

staffFrame == <<slots, bookings, att, stf, emailOn, faults, concurrent, init, gen, slotRows,
                profile, cli, now, rateLimits, rlLog, jwtSecretOk>>

Reply(c, status, error) ==
    calls' = [calls EXCEPT ![c].pc = "done", ![c].resp = json(status, error)]

\* a request to a path under /staff arrives: preflight, configuration check,
\* authCheck and the route dispatch
StaffArrive(c, route, authorization, subjectId) ==
    /\ calls[c].pc = "idle"
    /\ IF c = 1 THEN TRUE ELSE calls[c - 1].pc # "idle"
    /\ LET rec == [calls[c] EXCEPT !.method = route.method, !.path = route.path,
                                   !.authorization = authorization,
                                   !.subjectId = subjectId]
           answer(status, error) ==
               calls' = [calls EXCEPT ![c] = [rec EXCEPT !.pc = "done",
                                                         !.resp = json(status, error)]] IN
         IF route.method = "OPTIONS" THEN answer(200, "")
         ELSE IF ~jwtSecretOk THEN answer(500, "Server configuration error")
         ELSE IF authCheck(authorization) = null THEN answer(401, "Unauthorized")
         ELSE IF FirstStep(route) = "none" THEN answer(404, "Not found")
         ELSE calls' = [calls EXCEPT ![c] = [rec EXCEPT !.pc = FirstStep(route)]]
    /\ UNCHANGED <<db, staffFrame>>

\* DELETE FROM bookings WHERE subject_id = ?
DeleteSubjectBookings(c) ==
    /\ calls[c].pc = "ds_bookings"
    /\ db' = [db EXCEPT !.bookings = {b \in db.bookings : b.subject_id # calls[c].subjectId}]
    /\ calls' = [calls EXCEPT ![c].pc = "ds_slots"]
    /\ UNCHANGED staffFrame

\* DELETE FROM slots WHERE subject_id = ?
DeleteSubjectSlots(c) ==
    /\ calls[c].pc = "ds_slots"
    /\ db' = [db EXCEPT !.slots = {s \in db.slots : s.subject_id # calls[c].subjectId}]
    /\ calls' = [calls EXCEPT ![c].pc = "ds_subject"]
    /\ UNCHANGED staffFrame

\* DELETE FROM subjects WHERE id = ?, then the response
DeleteSubjectRow(c) ==
    /\ calls[c].pc = "ds_subject"
    /\ db' = [db EXCEPT !.subjects = db.subjects \ {calls[c].subjectId}]
    /\ Reply(c, 200, "")
    /\ UNCHANGED staffFrame

\* DELETE FROM users WHERE id = ?
DeleteUser(c) ==
    /\ calls[c].pc = "du_user"
    /\ db' = [db EXCEPT !.users = db.users \ {1}]
    /\ Reply(c, 200, "")
    /\ UNCHANGED staffFrame

\* the INSERT INTO slots of a generate request for the subject
GenerateInsert(c) ==
    /\ calls[c].pc = "g_insert"
    /\ db' = [db EXCEPT !.slots = db.slots \cup
                 {[id |-> c + 1, subject_id |-> calls[c].subjectId,
                   max_capacity |-> 1, current_bookings |-> 0]}]
    /\ Reply(c, 200, "")
    /\ UNCHANGED staffFrame

\* POST /bookings up to the verification: no token is needed
PublicBookReserve(c, slotId, subjectId) ==
    /\ calls[c].pc = "idle"
    /\ IF c = 1 THEN TRUE ELSE calls[c - 1].pc # "idle"
    /\ LET rec == [calls[c] EXCEPT !.method = "POST", !.path = "/bookings",
                                   !.subjectId = subjectId, !.slotId = slotId]
           rows == {s \in db.slots : s.id = slotId} IN
         IF ~jwtSecretOk
         THEN /\ calls' = [calls EXCEPT ![c] =
                             [rec EXCEPT !.pc = "done",
                                         !.resp = json(500, "Server configuration error")]]
              /\ UNCHANGED db
         ELSE IF rows = {}
         THEN /\ calls' = [calls EXCEPT ![c] =
                             [rec EXCEPT !.pc = "done",
                                         !.resp = json(400, "Slot no longer exists")]]
              /\ UNCHANGED db
         ELSE \E slot \in rows :
                 IF slot.current_bookings >= slot.max_capacity
                 THEN /\ calls' = [calls EXCEPT ![c] =
                                     [rec EXCEPT !.pc = "done", !.resp = json(409, FullMsg)]]
                      /\ UNCHANGED db
                 ELSE /\ calls' = [calls EXCEPT ![c] = [rec EXCEPT !.pc = "b_insert"]]
                      /\ db' = [db EXCEPT !.slots = (db.slots \ {slot}) \cup
                                   {[slot EXCEPT !.current_bookings =
                                        slot.current_bookings + 1]}]
    /\ UNCHANGED staffFrame

\* INSERT INTO bookings (..., slot_id, subject_id, ...) with the ids of the body
PublicBookInsert(c) ==
    /\ calls[c].pc = "b_insert"
    /\ db' = [db EXCEPT !.bookings = db.bookings \cup
                 {[id |-> c, slot_id |-> calls[c].slotId,
                   subject_id |-> calls[c].subjectId]}]
    /\ Reply(c, 200, "")
    /\ UNCHANGED staffFrame

InitStaff ==
    /\ slots = InitSlots(1, 0)
    /\ bookings = {}
    /\ init = InitSlots(1, 0)
    /\ att = [a \in Attempts |-> IdleAtt]
    /\ stf = [p \in Staff |-> IdleStf]
    /\ emailOn = FALSE
    /\ faults = 0
    /\ concurrent = FALSE
    /\ gen = [g \in Gens |-> IdleGen]
    /\ slotRows = <<>>
    /\ profile = "none"
    /\ cli = IdleCli
    /\ now \in {5000, 5999}
    /\ rateLimits = NoRateLimits
    /\ rlLog = NoRlLog
    /\ db = InitDb
    /\ jwtSecretOk \in BOOLEAN
    /\ calls = [c \in Callers |-> IdleCall]

NextStaff ==
    \/ \E c \in Callers, route \in StaffRoutes, authorization \in Headers :
          StaffArrive(c, route, authorization, 1)
    \/ \E c \in Callers : DeleteSubjectBookings(c)
    \/ \E c \in Callers : DeleteSubjectSlots(c)
    \/ \E c \in Callers : DeleteSubjectRow(c)
    \/ \E c \in Callers : DeleteUser(c)
    \/ \E c \in Callers : GenerateInsert(c)
    \/ \E c \in Callers : PublicBookReserve(c, 1, 1)
    \/ \E c \in Callers : PublicBookInsert(c)

SpecStaff == InitStaff /\ [][NextStaff]_vars

\* ------------------------------------------------------------------ concurrent cancellations
\* DELETE /staff/bookings/:id sent by several staff sessions at once, on the
\* tables of the booking requests; no booking request runs meanwhile.
InitCancel ==
    \E cap \in 1..MaxCap :
      \E k \in 0..cap :
        /\ k <= NumStudents
        /\ slots = InitSlots(cap, k)
        /\ bookings = InitBookings(k)
        /\ init = InitSlots(cap, k)
        /\ att = [a \in Attempts |-> IdleAtt]
        /\ stf = [p \in Cancellers |-> IdleStf]
        /\ emailOn = FALSE
        /\ faults = 0
        /\ concurrent = FALSE
        /\ gen = [g \in Gens |-> IdleGen]
        /\ slotRows = <<>>
        /\ profile = "none"
        /\ cli = IdleCli
        /\ now = 0
        /\ rateLimits = NoRateLimits
        /\ rlLog = NoRlLog
        /\ db = InitDb
        /\ jwtSecretOk = TRUE
        /\ calls = [c \in Callers |-> IdleCall]

NextCancel ==
    \/ \E p \in Cancellers, bookingId \in BookingIds \cup {0} : CancelSelect(p, bookingId)
    \/ \E p \in Cancellers : CancelDelete(p)
    \/ \E p \in Cancellers : CancelUpdate(p)
    \/ \E p \in Cancellers : StaffFault(p)

SpecCancel == InitCancel /\ [][NextCancel]_vars

\* ------------------------------------------------------------------ properties
Done(a) == att[a].pc = "done"
\* the attempts that passed validation and target slot s
Targeting(s) == {a \in Attempts : att[a].slotId = s}
DistinctRequesters(s) ==
    \A a, b \in Targeting(s) : a # b => att[a].studentId # att[b].studentId

\* C1: with no cancellation or staff edit, the number of attempts with distinct
\* requester ids that insert a Booking row for a slot never exceeds
\* maxCapacity - initialBookings.
C1_NoOverbooking ==
    \A s \in SlotIds :
        (init[s].exists /\ StaffOps = 0 /\ DistinctRequesters(s))
        => Cardinality({a \in Targeting(s) : att[a].inserted})
              <= init[s].max_capacity - init[s].current_bookings

\* C2: on a slot with maxCapacity = N and currentBookings = 0, once M > N attempts
\* with distinct requester ids have all completed, exactly N succeeded, M - N were
\* rejected with 409, and currentBookings = N.
C2_ExactlyNSucceed ==
    \A s \in SlotIds :
        LET N == init[s].max_capacity
            M == Cardinality(Targeting(s)) IN
        (/\ init[s].exists /\ init[s].current_bookings = 0
         /\ StaffOps = 0 /\ faults = 0
         /\ DistinctRequesters(s)
         /\ M > N
         /\ \A a \in Targeting(s) : Done(a))
        => /\ Cardinality({a \in Targeting(s) : att[a].resp.status = 200}) = N
           /\ Cardinality({a \in Targeting(s) : att[a].resp.status = 409}) = M - N
           /\ slots[s].current_bookings = N

\* C3: after every committed statement every slot has
\* 0 <= currentBookings <= maxCapacity.
C3_CounterWithinCapacity ==
    \A s \in SlotIds :
        slots[s].exists =>
            /\ 0 <= slots[s].current_bookings
            /\ slots[s].current_bookings <= slots[s].max_capacity

\* C4: at most one Booking row exists per (slotId, studentId) pair.
C4_OneRowPerRequester ==
    \A b1, b2 \in bookings :
        (b1.slot_id = b2.slot_id /\ b1.student_id = b2.student_id) => b1 = b2

\* C5: when the INSERT failed and the handler rethrows insertError, the step
\* before it decremented currentBookings by 1 floored at 0 and no Booking row of
\* the attempt exists; if the attempt's own increment had committed and no other
\* request ran meanwhile, currentBookings is back at its pre-attempt value.
C5_Compensation ==
    [][\A a \in Attempts :
         (att[a].pc = "comp" /\ att'[a].pc = "done" /\ att'[a].thrown = "insertError")
         => LET s == att[a].slotId IN
            /\ bookings' = bookings
            /\ \A b \in bookings' : b.id # a
            /\ \A r \in SlotIds : r # s => slots'[r] = slots[r]
            /\ slots[s].exists =>
                 /\ slots'[s].max_capacity = slots[s].max_capacity
                 /\ slots'[s].current_bookings =
                       (IF slots[s].current_bookings >= 1
                        THEN slots[s].current_bookings - 1 ELSE 0)
            /\ (att[a].incremented /\ ~concurrent)
                 => slots'[s].current_bookings = att[a].pre]_vars

C5_Witness ==
    \E a \in Attempts :
        /\ Done(a) /\ att[a].thrown = "insertError" /\ att[a].compensated
        /\ att[a].incremented /\ ~concurrent
        /\ att[a].pre >= 1
        /\ slots[att[a].slotId].current_bookings = att[a].pre

\* C6: an attempt whose conditional increment committed and in which a later DB
\* statement failed ends with its Booking row inserted or with the compensating
\* decrement executed.
C6_IncrementNeverLeftHeld ==
    \A a \in Attempts :
        (Done(a) /\ att[a].incremented /\ att[a].thrown # "none")
        => (att[a].inserted \/ att[a].compensated)

\* C7: two sequential bookings by different requesters of a slot with
\* maxCapacity = 1 and currentBookings = 0: the first is answered 200, the second
\* 409 (fully booked), currentBookings = 1 and one Booking row exists.
C7_Precondition(s) ==
    /\ init[s].exists /\ init[s].max_capacity = 1 /\ init[s].current_bookings = 0
    /\ ~concurrent /\ faults = 0 /\ StaffOps = 0
    /\ Done(1) /\ Done(2)
    /\ att[1].slotId = s /\ att[2].slotId = s
    /\ att[1].studentId # att[2].studentId

C7_SequentialSecondIsFull ==
    \A s \in SlotIds :
        C7_Precondition(s)
        => /\ att[1].resp.status = 200
           /\ att[2].resp = json(409, FullMsg)
           /\ slots[s].current_bookings = 1
           /\ Cardinality({b \in bookings : b.slot_id = s}) = 1

C7_Witness ==
    \E s \in SlotIds : C7_Precondition(s) /\ att[2].resp.status = 409

\* C8: once the Booking row is inserted, the request is answered 200.
C8_InsertedAnswered200 ==
    \A a \in Attempts : (Done(a) /\ att[a].inserted) => att[a].resp.status = 200

\* C9: the step that rejects a booking request with 400, or with 409 at the
\* pre-check, leaves slots and bookings unchanged, and the request executed no
\* UPDATE or INSERT before it.
C9_Rejected(r) == r.status = 400 \/ r = json(409, FullMsg)

C9_RejectedNoMutation ==
    [][\A a \in Attempts :
         (att[a].pc # "done" /\ att'[a].pc = "done" /\ C9_Rejected(att'[a].resp))
         => /\ slots' = slots
            /\ bookings' = bookings
            /\ att'[a].writes = 0
            /\ ~att'[a].incremented /\ ~att'[a].inserted]_vars

C9_Witness ==
    /\ Done(1) /\ att[1].resp = json(409, FullMsg)
    /\ Done(2) /\ att[2].resp = json(400, "You have already booked this slot")

\* C10: cancelling an existing booking deletes its row, then sets the owning
\* slot's currentBookings to max(currentBookings - 1, 0); cancelling an unknown
\* booking id is answered 404 and changes nothing.
C10_Cancel ==
    [][\A p \in Staff :
         /\ (stf[p].pc = "idle" /\ stf'[p].op = "cancel" /\ stf'[p].bookingId # 0)
            => /\ UNCHANGED <<slots, bookings>>
               /\ IF \E b \in bookings : b.id = stf'[p].bookingId
                  THEN /\ stf'[p].pc = "c_delete"
                       /\ \E b \in bookings : /\ b.id = stf'[p].bookingId
                                              /\ b.slot_id = stf'[p].slot_id
                  ELSE stf'[p].pc = "done" /\ stf'[p].resp.status = 404
         /\ (stf[p].pc = "c_delete" /\ stf'[p].pc = "c_update")
            => /\ slots' = slots
               /\ \A b \in bookings : b \in bookings' <=> b.id # stf[p].bookingId
               /\ bookings' \subseteq bookings
         /\ (stf[p].pc = "c_update" /\ stf'[p].resp.status = 200)
            => LET s == stf[p].slot_id IN
               /\ bookings' = bookings
               /\ \A r \in SlotIds : r # s => slots'[r] = slots[r]
               /\ slots[s].exists =>
                    /\ slots'[s].max_capacity = slots[s].max_capacity
                    /\ slots'[s].current_bookings =
                          (IF slots[s].current_bookings >= 1
                           THEN slots[s].current_bookings - 1 ELSE 0)
         /\ (stf[p].pc # "done" /\ stf'[p].op = "cancel" /\ stf'[p].resp.status = 200)
            => stf[p].pc = "c_update"]_vars

C10_Witness ==
    \E p \in Staff :
        /\ stf[p].op = "cancel" /\ stf[p].resp.status = 200
        /\ \A b \in bookings : b.id # stf[p].bookingId
        /\ slots[stf[p].slot_id].current_bookings = init[stf[p].slot_id].current_bookings - 1

\* C11 as stated: every booking attempt that passed input validation ends in
\* exactly one of the terminal states DuplicateRejected, FullRejected,
\* ReservedThenBooked, ReservedThenCompensated.
DuplicateRejected(rec) == rec.resp = json(400, "You have already booked this slot")
FullRejected(rec) == rec.resp.status = 409
ReservedThenBooked(rec) == rec.inserted
ReservedThenCompensated(rec) ==
    rec.thrown = "insertError" /\ rec.compensated /\ ~rec.inserted
\* the two outcomes the handler has besides the four
SlotMissing(rec) == rec.resp = json(400, "Slot no longer exists")
Failed(rec) ==
    rec.thrown = "dbError" /\ ~rec.inserted /\ rec.resp = json(500, "Server error")

Outcomes(rec) ==
    {n \in {"DuplicateRejected", "FullRejected", "ReservedThenBooked",
            "ReservedThenCompensated", "SlotMissing", "Failed"} :
        \/ n = "DuplicateRejected" /\ DuplicateRejected(rec)
        \/ n = "FullRejected" /\ FullRejected(rec)
        \/ n = "ReservedThenBooked" /\ ReservedThenBooked(rec)
        \/ n = "ReservedThenCompensated" /\ ReservedThenCompensated(rec)
        \/ n = "SlotMissing" /\ SlotMissing(rec)
        \/ n = "Failed" /\ Failed(rec)}

C11_OneOfFourTerminalStates ==
    \A a \in Attempts :
        (Done(a) /\ att[a].slotId # 0) =>
            /\ Cardinality(Outcomes(att[a])) = 1
            /\ Outcomes(att[a]) \cap {"SlotMissing", "Failed"} = {}

\* C11 amended: a booking attempt that passed input validation has, from its
\* answer on, exactly one of the outcomes DuplicateRejected, SlotMissing,
\* FullRejected, ReservedThenBooked, ReservedThenCompensated or Failed (a DB
\* statement other than the INSERT threw, no Booking row); the answer ends the
\* handler, and it changes nothing and writes nothing afterwards.
C11_TerminalOutcomes ==
    [][\A a \in Attempts :
         /\ (att'[a].resp.status # 0 /\ att'[a].slotId # 0)
            => /\ att'[a].pc = "done"
               /\ Cardinality(Outcomes(att'[a])) = 1
         /\ att[a].resp.status # 0 => att'[a] = att[a]]_vars

C11_Witness ==
    \E a, b \in Attempts :
        /\ Done(a) /\ Outcomes(att[a]) = {"Failed"} /\ att[a].incremented
        /\ Done(b) /\ Outcomes(att[b]) = {"SlotMissing"}
        /\ bookings # {}

\* ------------------------------------------------------------------ properties: slot generation
GenDone(g) == gen[g].pc = "done"
GenStarted(g) == gen[g].pc # "idle"
Accepted(g) == GenDone(g) /\ gen[g].resp.status = 200
IsExplicit(req) == Len(req.dates) > 0
IsRecurring(req) == Len(req.dates) = 0 /\ req.startDate # NoDateStr
WellFormed(dateStr) == dateStr.form = "YYYY-MM-DD"
\* the rows handler g has inserted, in the order of the table
RowsOf(g) == SelectSeq(slotRows, LAMBDA r : r.id[1] = g)
StartTimes(rows) == [k \in 1..Len(rows) |-> rows[k].start_time]
Elems(s) == {s[k] : k \in 1..Len(s)}
\* minutes since midnight of a time of day, written HH:MM or HH:MM:SS
Minutes(t) == t[1] * 60 + t[2]

\* the Gregorian calendar, independently of the handler's date arithmetic
IsLeap(y) == (y % 4 = 0 /\ y % 100 # 0) \/ y % 400 = 0
MonthLength(y, m) ==
    IF m = 2 THEN (IF IsLeap(y) THEN 29 ELSE 28)
    ELSE IF m \in {4, 6, 9, 11} THEN 30 ELSE 31
IsCalendarDate(d) == d.month \in 1..12 /\ d.day \in 1..MonthLength(d.year, d.month)
RECURSIVE DaysBefore(_, _)
DaysBefore(y, m) == IF m <= 1 THEN 0 ELSE DaysBefore(y, m - 1) + MonthLength(y, m - 1)
\* days from 0001-01-01 (day 1, a Monday) to d
DayNumber(d) ==
    365 * (d.year - 1) + (d.year - 1) \div 4 - (d.year - 1) \div 100
    + (d.year - 1) \div 400 + DaysBefore(d.year, d.month) + d.day
\* 0 = Sunday .. 6 = Saturday
Weekday(d) == DayNumber(d) % 7

RangeStart(req) == req.startDate
RangeEnd(req) == IF req.endDate = NoDateStr THEN req.startDate ELSE req.endDate
\* a recurring request whose two dates are days of the calendar
CalendarRange(req) ==
    /\ IsRecurring(req)
    /\ WellFormed(RangeStart(req)) /\ IsCalendarDate(RangeStart(req))
    /\ WellFormed(RangeEnd(req)) /\ IsCalendarDate(RangeEnd(req))
RangeDays(req) == DayNumber(RangeStart(req))..DayNumber(RangeEnd(req))
\* the day numbers of the range that pass the days filter
MatchingDays(req) ==
    {n \in RangeDays(req) : Len(req.days) = 0 \/ (n % 7) \in Elems(req.days)}

\* C12: every slot of an accepted recurring request lies on a calendar day of
\* [startDate, endDate] whose weekday (0 = Sunday .. 6 = Saturday) is in the days
\* filter; with an empty or absent filter every calendar day of the range has a
\* slot.
C12_WeekdayInFilter ==
    \A g \in Gens :
        (Accepted(g) /\ CalendarRange(gen[g].req)) =>
            LET req == gen[g].req
                rows == RowsOf(g)
            IN /\ Len(rows) = gen[g].count
               /\ \A k \in 1..Len(rows) :
                     /\ IsCalendarDate(rows[k].start_time.date)
                     /\ DayNumber(rows[k].start_time.date) \in RangeDays(req)
                     /\ Len(req.days) > 0 =>
                           Weekday(rows[k].start_time.date) \in Elems(req.days)
               /\ \A n \in MatchingDays(req) :
                     \E k \in 1..Len(rows) : DayNumber(rows[k].start_time.date) = n

C12_Witness ==
    \E g \in Gens :
        /\ Accepted(g) /\ CalendarRange(gen[g].req)
        /\ gen[g].req.days = <<0, 6>>
        /\ {r.date : r \in Elems(StartTimes(RowsOf(g)))} = {D(2023, 12, 30), D(2023, 12, 31)}

\* C13: with a lunchBreak {start, end} given, no slot [s, s + duration) of an
\* accepted request overlaps the lunch interval: none has s < lunchEnd and
\* s + duration > lunchStart.
C13_NoSlotInLunch ==
    \A g \in Gens :
        LET req == gen[g].req IN
        (Accepted(g) /\ req.lunchBreak.start # <<>> /\ req.lunchBreak.end # <<>>) =>
            \A k \in 1..Len(gen[g].slots) :
                LET s == Minutes(gen[g].slots[k].start_time.time) IN
                ~(/\ s < Minutes(req.lunchBreak.end)
                  /\ s + req.duration > Minutes(req.lunchBreak.start))

\* C14: the (date, time of day) pairs generated for an accepted request contain
\* no pair twice.
C14_NoPairTwice ==
    \A g \in Gens :
        Accepted(g) =>
            \A j, k \in 1..Len(gen[g].slots) :
                j # k => gen[g].slots[j].start_time # gen[g].slots[k].start_time

\* C15: in recurring mode the dates kept by the walk are days of the calendar in
\* increasing order; with no days filter they are every day from startDate to
\* endDate inclusive, each once; a range Feb 28 - Mar 1 includes Feb 29 exactly
\* when the year is divisible by 4 and not by 100, or divisible by 400.
Walked(g) ==
    /\ GenStarted(g)
    /\ CalendarRange(gen[g].req)
    /\ gen[g].resp.error \notin {"Invalid subject ID", "Invalid date format"}

C15_DateWalk ==
    \A g \in Gens :
        Walked(g) =>
            LET req == gen[g].req
                t == gen[g].targetDateStrs
                first == DayNumber(RangeStart(req))
                y == RangeStart(req).year
            IN /\ \A i \in 1..Len(t) :
                     /\ WellFormed(t[i]) /\ IsCalendarDate(t[i])
                     /\ DayNumber(t[i]) \in RangeDays(req)
               /\ \A i, j \in 1..Len(t) : i < j => DayNumber(t[i]) < DayNumber(t[j])
               /\ Len(req.days) = 0 =>
                     /\ Len(t) = Cardinality(RangeDays(req))
                     /\ \A i \in 1..Len(t) : DayNumber(t[i]) = first + i - 1
               /\ (/\ Len(req.days) = 0
                   /\ RangeStart(req) = D(y, 2, 28) /\ RangeEnd(req) = D(y, 3, 1))
                  => ((\E i \in 1..Len(t) : t[i] = D(y, 2, 29))
                      <=> ((y % 4 = 0 /\ y % 100 # 0) \/ y % 400 = 0))

C15_Witness ==
    \E g \in Gens :
        /\ Accepted(g)
        /\ gen[g].req.startDate = D(2023, 12, 30) /\ gen[g].req.endDate = D(2024, 1, 2)
        /\ gen[g].targetDateStrs =
              <<D(2023, 12, 30), D(2023, 12, 31), D(2024, 1, 1), D(2024, 1, 2)>>

\* C16: the request {startDate 2024-02-26, endDate 2024-03-02, days [4],
\* timeRanges [09:00-10:00], duration 20, breakTime 0} generates exactly 3
\* slots, at 2024-02-29 09:00, 09:20 and 09:40, and none on another date.
C16_Request ==
    Body("subject-1", Recurring(D(2024, 2, 26), D(2024, 3, 2), <<4>>),
         [timeRanges |-> <<Window(<<9, 0>>, <<10, 0>>)>>, startTime |-> <<>>,
          endTime |-> <<>>], 20, 0, NoLunch)

C16_Slots ==
    <<[date |-> D(2024, 2, 29), time |-> <<9, 0, 0>>],
      [date |-> D(2024, 2, 29), time |-> <<9, 20, 0>>],
      [date |-> D(2024, 2, 29), time |-> <<9, 40, 0>>]>>

C16_LeapDayThursday ==
    \A g \in Gens :
        gen[g].req = C16_Request =>
            /\ gen[g].pc \in {"insert", "done"}
            /\ StartTimes(gen[g].slots) = C16_Slots
            /\ (GenDone(g) /\ gen[g].resp.status # 500) =>
                  /\ gen[g].resp.status = 200
                  /\ gen[g].count = 3
                  /\ StartTimes(RowsOf(g)) = C16_Slots

C16_Witness ==
    \E g \in Gens :
        /\ gen[g].req = C16_Request /\ Accepted(g)
        /\ Len(RowsOf(g)) = 3

\* C17 as stated: a request whose timeRanges is absent or empty is rejected
\* with 400 and persists no slot.
C17_NoWindowsRejected ==
    \A g \in Gens :
        (GenDone(g) /\ faults = 0 /\ Len(gen[g].req.timeRanges) = 0) =>
            /\ gen[g].resp.status = 400
            /\ RowsOf(g) = <<>>

\* C17 amended: a request whose timeRanges is absent or empty is expanded over
\* the single window [startTime or 09:00, endTime or 17:00]: every slot of it
\* lies inside that window, and it is not rejected when a date resolves and a
\* slot fits the window.
DefaultWindow(req) ==
    Window(IF req.startTime = <<>> THEN <<9, 0>> ELSE req.startTime,
           IF req.endTime = <<>> THEN <<17, 0>> ELSE req.endTime)

ExplicitResolves(req) == IsExplicit(req) /\ \E i \in 1..Len(req.dates) : WellFormed(req.dates[i])
RecurringResolves(req) == CalendarRange(req) /\ MatchingDays(req) # {}
DateResolves(req) == ExplicitResolves(req) \/ RecurringResolves(req)

C17_NoWindowsUseDefault ==
    \A g \in Gens :
        LET req == gen[g].req
            w == DefaultWindow(req)
        IN (GenStarted(g) /\ validSubject(req.subjectId) /\ Len(req.timeRanges) = 0) =>
              /\ gen[g].ranges = <<w>>
              /\ \A k \in 1..Len(gen[g].slots) :
                    LET s == Minutes(gen[g].slots[k].start_time.time) IN
                    Minutes(w.startTime) <= s /\ s + req.duration <= Minutes(w.endTime)
              /\ (/\ DateResolves(req)
                  /\ req.lunchBreak = NoLunch
                  /\ Minutes(w.startTime) + req.duration <= Minutes(w.endTime))
                 => /\ gen[g].resp.status # 400
                    /\ Len(gen[g].slots) > 0
                    /\ gen[g].slots[1].start_time.time = <<w.startTime[1], w.startTime[2], 0>>

C17_Witness ==
    \E g \in Gens :
        /\ Accepted(g)
        /\ Len(gen[g].req.timeRanges) = 0 /\ gen[g].req.startTime = <<>>
        /\ gen[g].req.endTime = <<>>
        /\ Len(RowsOf(g)) = gen[g].count
        /\ RowsOf(g)[1].start_time.time = <<9, 0, 0>>

\* C18: a request from which no date resolves (an explicit list holding only
\* invalid date strings, or a recurring range in which no day matches the days
\* filter) is rejected with 400 and inserts no slot row.
NoDateResolves(req) ==
    \/ IsExplicit(req) /\ \A i \in 1..Len(req.dates) : ~WellFormed(req.dates[i])
    \/ CalendarRange(req) /\ MatchingDays(req) = {}

NoSlotFits(req) ==
    /\ Len(req.timeRanges) > 0
    /\ \A i \in 1..Len(req.timeRanges) :
          Minutes(req.timeRanges[i].startTime) + req.duration
             > Minutes(req.timeRanges[i].endTime)
ValidButEmpty(req) == validSubject(req.subjectId) /\ DateResolves(req) /\ NoSlotFits(req)

C19_EmptyReportedAsCountZero ==
    \A g \in Gens :
        (GenDone(g) /\ ValidButEmpty(gen[g].req)) =>
            gen[g].resp.status = 200 /\ gen[g].count = 0

\* C19 amended: a valid request whose expansion yields no slot is answered 400
\* with the error 'No slots generated', a text no validation error uses, and
\* inserts no slot row.
ValidationErrors == {"Invalid subject ID", "Invalid date format", "No valid dates provided"}

C19_EmptyRejectedByName ==
    \A g \in Gens :
        /\ (GenStarted(g) /\ ValidButEmpty(gen[g].req)) =>
              /\ GenDone(g)
              /\ gen[g].resp = json(400, "No slots generated")
              /\ RowsOf(g) = <<>>
        /\ (GenDone(g) /\ gen[g].resp.error = "No slots generated") =>
              /\ validSubject(gen[g].req.subjectId)
              /\ Len(gen[g].targetDateStrs) > 0
        /\ (GenDone(g) /\ gen[g].resp.error \in ValidationErrors) =>
              /\ gen[g].resp.status = 400
              /\ ~ValidButEmpty(gen[g].req)

C19_Witness ==
    \E g \in Gens :
        /\ GenDone(g) /\ ValidButEmpty(gen[g].req)
        /\ gen[g].resp = json(400, "No slots generated")
        /\ gen[g].targetDateStrs = <<D(2024, 2, 29), D(2024, 3, 1)>>

\* C20: two accepted runs of the same request expand to the same ordered list
\* of start times and persist it twice: 2 x count rows, each with
\* current_bookings = 0.
C20_SameRequest(g, h) ==
    g # h /\ Accepted(g) /\ Accepted(h) /\ gen[g].req = gen[h].req

C20_TwiceTheRows ==
    \A g, h \in Gens :
        C20_SameRequest(g, h) =>
            /\ StartTimes(gen[g].slots) = StartTimes(gen[h].slots)
            /\ gen[g].count = Len(gen[g].slots) /\ gen[h].count = gen[g].count
            /\ StartTimes(RowsOf(g)) = StartTimes(gen[g].slots)
            /\ StartTimes(RowsOf(h)) = StartTimes(gen[g].slots)
            /\ Len(SelectSeq(slotRows, LAMBDA r : r.id[1] \in {g, h})) = 2 * gen[g].count
            /\ \A k \in 1..Len(slotRows) : slotRows[k].current_bookings = 0

C20_Witness ==
    \E g, h \in Gens :
        /\ C20_SameRequest(g, h)
        /\ gen[g].count > BATCH_SIZE
        /\ Len(slotRows) = 2 * gen[g].count

\* C21: slots are inserted in batches of BATCH_SIZE in expansion order. A step
\* of a handler that is at an INSERT either persists exactly the next batch
\* after the rows it persisted before, or fails: then the rows of batches
\* 1..k-1 stay, no row of batch k or later is stored, the handler is answered
\* 500 and, being answered, never inserts again.
RowsIn(rows, g) == SelectSeq(rows, LAMBDA r : r.id[1] = g)
InsertFailed(rec) == rec.pc = "done" /\ rec.resp.status = 500
C21_Persisted(g) ==
    /\ RowsIn(slotRows', g) = RowsOf(g) \o batchOf(gen[g].slots, gen[g].i)
    /\ RowsIn(slotRows', g) =
           SubSeq(gen[g].slots, 1, Len(RowsOf(g)) + Len(batchOf(gen[g].slots, gen[g].i)))
    /\ Len(batchOf(gen[g].slots, gen[g].i)) \in 1..BATCH_SIZE
    /\ gen'[g].slots = gen[g].slots
    /\ gen'[g].pc \in {"insert", "done"}
    /\ gen'[g].pc = "done" =>
           gen'[g].resp.status = 200 /\ RowsIn(slotRows', g) = gen[g].slots

C21_Failed(g) ==
    /\ InsertFailed(gen'[g])
    /\ gen'[g].slots = gen[g].slots /\ gen'[g].i = gen[g].i
    /\ RowsIn(slotRows', g) = RowsOf(g)
    /\ RowsOf(g) = SubSeq(gen[g].slots, 1, gen[g].i)
    /\ gen[g].i % BATCH_SIZE = 0 /\ gen[g].i < Len(gen[g].slots)

C21_Step(g) ==
    /\ gen[g].pc = "insert" /\ gen'[g] # gen[g] => C21_Persisted(g) \/ C21_Failed(g)
    /\ gen[g].pc = "insert" /\ gen'[g] = gen[g] => RowsIn(slotRows', g) = RowsOf(g)
    /\ GenDone(g) => gen'[g] = gen[g] /\ RowsIn(slotRows', g) = RowsOf(g)

\* a failed INSERT (faults counts them) is never issued again: it ends a request
C21_NoRetry ==
    faults' # faults => \E g \in Gens : gen[g].pc = "insert" /\ C21_Failed(g)

C21_BatchFailureKeepsEarlierBatches ==
    [][C21_NoRetry /\ \A g \in Gens : C21_Step(g)]_vars

\* the second batch of a 72-row run failed: the first 50 rows are stored
C21_Witness ==
    \E g \in Gens :
        /\ InsertFailed(gen[g])
        /\ Len(gen[g].slots) > BATCH_SIZE
        /\ gen[g].i = BATCH_SIZE
        /\ RowsOf(g) = SubSeq(gen[g].slots, 1, BATCH_SIZE)


\* C28: an attempt rejected with 409 at the verification step did not change
\* the slot row: it does not hold an increment of current_bookings, whatever
\* other bookings and cancellations did on the slot.
RejectedAtVerify(a) == Done(a) /\ att[a].resp = json(409, JustFullMsg)
OnlyCancellations == \A p \in Staff : stf[p].op \in {"none", "cancel"}
C28_VerifyRejectionLeavesRow ==
    \A a \in Attempts :
        RejectedAtVerify(a) /\ OnlyCancellations => ~att[a].incremented

\* C29: an attempt goes on to the INSERT only if its own conditional UPDATE
\* incremented current_bookings.
PassedVerify(a) == att[a].pc \in {"insert", "comp", "details"} \/ att[a].inserted
C29_InsertOnlyAfterOwnIncrement ==
    \A a \in Attempts : PassedVerify(a) => att[a].incremented

\* C30 as stated: with no cancellation or staff edit, of the attempts on one
\* slot whose pre-check read the same value v at most one changes the row.
Updated(a) == att[a].pc \notin {"idle", "dup", "check", "update"} /\ att[a].slot.found
SameRead(a, b) ==
    /\ a # b /\ Updated(a) /\ Updated(b)
    /\ att[a].slotId = att[b].slotId
    /\ att[a].slot.current_bookings = att[b].slot.current_bookings
C30_OneUpdatePerReadValue ==
    \A a, b \in Attempts :
        StaffOps = 0 /\ SameRead(a, b) => ~(att[a].incremented /\ att[b].incremented)

\* C30 amended: the same, when also no compensating decrement ran on the slot.
NoCompensation == \A a \in Attempts : ~att[a].compensated
C30_OneUpdatePerReadValueUncompensated ==
    \A a, b \in Attempts :
        StaffOps = 0 /\ NoCompensation /\ SameRead(a, b)
        => ~(att[a].incremented /\ att[b].incremented)

\* two attempts read the same value; one UPDATE changed the row, the other did not
C30_Witness ==
    \E a, b \in Attempts :
        /\ StaffOps = 0 /\ NoCompensation /\ SameRead(a, b)
        /\ att[a].incremented /\ ~att[b].incremented
        /\ slots[att[a].slotId].current_bookings = att[a].slot.current_bookings + 1


\* ------------------------------------------------------------------ properties: booking client
\* the table holds the slot with a free seat
Available(slotId) ==
    /\ slotId \in SlotIds /\ slots[slotId].exists
    /\ slots[slotId].current_bookings < slots[slotId].max_capacity
ValidateEnds == cli.v.pc # "idle" /\ cli'.v.pc = "idle"
SubmitEnds == cli.s.pc # "idle" /\ cli'.s.pc = "idle"

\* C22 as stated: a validateAndContinue whose fetch showed the chosen slot
\* missing or full ends with selection.slot cleared, the slot list replaced and
\* the step TIME; it moves to DETAILS only if the slot is still available.
C22_UnavailableClearsSelection ==
    [][/\ ValidateEnds /\ cli.v.seen = "unavailable"
          => cli'.slot = NoSel /\ cli'.slots = getSlots /\ cli'.step = TIME
       /\ cli'.v # cli.v /\ cli'.step = DETAILS /\ cli.step # DETAILS
          => Available(cli.v.slotId)]_vars

\* C22 amended: after a fetch that failed or showed the chosen slot missing or
\* full, a second fetch follows; if it succeeds the list is replaced and
\* selection.slot cleared, if it throws both are left as they were and
\* LOAD_FAILED is shown; the step is not changed either way. The step becomes
\* DETAILS, with the fresh slot selected, only when the first fetch showed the
\* slot available.
C22_PreFlight ==
    [][/\ cli.v.pc = "check" /\ cli'.v.pc = "refresh"
          => /\ faults' # faults \/ ~Available(cli.v.slotId)
             /\ cli'.slot = cli.slot /\ cli'.slots = cli.slots /\ cli'.step = cli.step
       /\ cli.v.pc = "refresh" /\ cli'.v.pc = "idle"
          => /\ cli'.step = cli.step
             /\ IF faults' = faults
                THEN cli'.slot = NoSel /\ cli'.slots = getSlots
                ELSE /\ cli'.slot = cli.slot /\ cli'.slots = cli.slots
                     /\ cli'.toast = LOAD_FAILED
       /\ cli.v.pc = "check" /\ cli'.v.pc = "idle"
          => /\ faults' = faults /\ Available(cli.v.slotId)
             /\ cli'.step = DETAILS
             /\ cli'.slot = find(getSlots, cli.v.slotId)
       /\ cli.v.pc = "check" => cli'.v.pc \in {"check", "refresh", "idle"}
       /\ cli.v.pc = "refresh" => cli'.v.pc \in {"refresh", "idle"}]_vars

\* the chosen slot was found full or missing: the list is fresh, nothing is
\* selected and the page shows the TIME step
C22_Witness ==
    /\ cli.v.pc = "idle" /\ cli.v.seen = "unavailable"
    /\ cli.toast = SLOT_UNAVAILABLE
    /\ cli.slot = NoSel /\ cli.step = TIME
    /\ cli.slots = getSlots /\ ~Available(cli.v.slotId)


\* C23 as stated: createBooking is called only after a fetch of the same
\* submitBooking showed the selected slot with a free seat; when that check
\* fails the invocation ends without the call, with selection.slot cleared and
\* the step TIME.
CheckFailed == cli.s.seen \in {"unavailable", "failed"}
CallsCreateBooking == cli'.s.called /\ ~cli.s.called
C23_CallOnlyAfterCheck ==
    CallsCreateBooking
    => cli.s.pc = "check" /\ faults' = faults /\ Available(cli.s.slotId)

C23_FailedCheckClearsSelection ==
    [][/\ C23_CallOnlyAfterCheck
       /\ SubmitEnds /\ CheckFailed
          => ~cli'.s.called /\ cli'.slot = NoSel /\ cli'.step = TIME]_vars

\* C23 amended: the call is made only after the check passed. After a failed
\* check no call is made and the list is fetched again: if that refresh
\* succeeds the list is replaced, selection.slot cleared and the step set to
\* TIME; if it throws, the catch block fetches once more and clears the
\* selection and returns to TIME only when that fetch succeeds and shows the
\* slot missing or full, otherwise selection and step are left as they were.
C23_FinalCheck ==
    [][/\ C23_CallOnlyAfterCheck
       /\ cli.s.pc = "check" /\ cli'.s.pc = "refresh"
          => /\ faults' # faults \/ ~Available(cli.s.slotId)
             /\ ~cli'.s.called /\ cli'.toast = SLOT_FULL
             /\ cli'.slot = cli.slot /\ cli'.step = cli.step
       /\ cli.s.pc = "refresh" /\ cli'.s.pc = "idle"
          => /\ faults' = faults /\ ~cli'.s.called
             /\ cli'.slots = getSlots /\ cli'.slot = NoSel /\ cli'.step = TIME
       /\ cli.s.pc = "refresh" /\ cli'.s.pc = "catch"
          => /\ faults' # faults /\ ~cli'.s.called
             /\ cli'.slot = cli.slot /\ cli'.step = cli.step
       /\ cli.s.pc = "catch" /\ cli'.s.pc = "idle" /\ CheckFailed
          => /\ ~cli'.s.called
             /\ IF faults' = faults /\ ~Available(cli.s.slotId)
                THEN cli'.slots = getSlots /\ cli'.slot = NoSel /\ cli'.step = TIME
                ELSE cli'.slot = cli.slot /\ cli'.step = cli.step
       /\ cli.s.pc = "refresh" => cli'.s.pc \in {"refresh", "idle", "catch"}]_vars

\* the final check found the slot full or missing: no call, nothing selected, TIME
C23_Witness ==
    /\ cli.s.pc = "idle" /\ cli.s.seen = "unavailable" /\ ~cli.s.called
    /\ cli.slot = NoSel /\ cli.step = TIME /\ cli.slots = getSlots
    /\ cli.toast = SLOT_FULL /\ ~cli.isLoading

Limit(key) == IF key.route = "login" THEN 5 ELSE 10
Min(x, y) == IF x <= y THEN x ELSE y
C25_Request(key) ==
    rlLog'.seen[key] # rlLog.seen[key] =>
        LET o == rlLog'.seen[key] IN
          /\ o.passed <= Limit(key)
          /\ o.passed = Min(o.total, Limit(key))
          /\ (rlLog'.last.status = 429) = (o.total > Limit(key))
          /\ rlLog'.last.status = 429 => slots' = slots /\ bookings' = bookings
          /\ now <= o.first + 60000

C25_AtMostLimitPerWindow == [][\A key \in RlKeys : C25_Request(key)]_vars

\* in its second window a booking key is refused its 11th request
C25_Witness ==
    \E key \in RlKeys :
        /\ key.route = "booking"
        /\ rlLog.seen[key].windows = 2
        /\ rlLog.seen[key].total = 11 /\ rlLog.seen[key].passed = 10
        /\ rlLog.last = [key |-> key, status |-> 429]
        /\ now = rlLog.seen[key].first + 60000


\* ------------------------------------------------------------------ properties: protected routes
UnderStaff(rec) == rec.path \in {route.path : route \in StaffRoutes}
\* the header carries a token the server issued whose exp has not passed
Authenticated(authorization) ==
    /\ authorization.scheme \in {"Bearer", "raw"}
    /\ authorization.token \in {"good", "last"}
Unauthenticated(c) ==
    /\ calls'[c] # calls[c]
    /\ UnderStaff(calls'[c]) /\ ~Authenticated(calls'[c].authorization)

\* C26 as stated: every request to a path under /staff without a valid,
\* unexpired token is answered 401 and changes none of the tables.
C26_Unauthorized401 ==
    [][\A c \in Callers :
          Unauthenticated(c)
          => /\ calls'[c].pc = "done" /\ calls'[c].resp.status = 401
             /\ db' = db]_vars

\* C26 amended: such a request ends at once without a DB statement, all tables
\* unchanged; it is answered 401, except that a CORS preflight (OPTIONS) gets
\* 200 and that every request gets 500 when JWT_SECRET is not configured.
C26_UnauthorizedChangesNothing ==
    [][\A c \in Callers :
          Unauthenticated(c)
          => /\ calls'[c].pc = "done" /\ db' = db
             /\ calls'[c].resp =
                   IF calls'[c].method = "OPTIONS" THEN json(200, "")
                   ELSE IF ~jwtSecretOk THEN json(500, "Server configuration error")
                   ELSE json(401, "Unauthorized")]_vars

\* DELETE /staff/subjects/:id with an expired Bearer token: 401, subject kept
C26_Witness ==
    \E c \in Callers :
        /\ calls[c].pc = "done" /\ calls[c].method = "DELETE"
        /\ calls[c].path = "/staff/subjects/:id"
        /\ calls[c].authorization = [scheme |-> "Bearer", token |-> "expired"]
        /\ calls[c].resp = json(401, "Unauthorized")
        /\ calls[c].subjectId \in db.subjects

\* C27: when DELETE /staff/subjects/:id completes, no row of slots and no row
\* of bookings references the deleted subject, whatever booking attempt or
\* generate request for the subject ran meanwhile.
References(tables, subjectId) ==
    {s \in tables.slots : s.subject_id = subjectId}
        \cup {b \in tables.bookings : b.subject_id = subjectId}
C27_NoRowReferencesDeletedSubject ==
    [][\A c \in Callers :
          calls[c].pc = "ds_subject" /\ calls'[c].pc = "done"
          => References(db', calls[c].subjectId) = {}]_vars

\* ------------------------------------------------------------------ properties: counter and rows
\* C31: with bookings and cancellations only and no DB fault, once every
\* request has completed each slot's current_bookings equals the number of
\* rows of bookings that reference the slot.
RowsFor(s) == Cardinality({b \in bookings : b.slot_id = s})
AllCompleted == ~AnyInFlight
C31_CounterEqualsRows ==
    faults = 0 /\ OnlyCancellations /\ AllCompleted
    => \A s \in SlotIds : slots[s].exists => slots[s].current_bookings = RowsFor(s)

\* C32: two DELETE /staff/bookings/:id requests for the same booking that both
\* complete without a DB fault lower the slot's current_bookings by exactly 1
\* in total.
Cancelled(p) == stf[p].pc = "done" /\ stf[p].op = "cancel" /\ stf[p].resp = json(200, "")
SameBooking(p, q) == p # q /\ stf[p].bookingId = stf[q].bookingId
C32_SeatFreedOnce ==
    \A p, q \in Cancellers :
        faults = 0 /\ stf[p].pc = "done" /\ stf[q].pc = "done"
        /\ Cancelled(p) /\ SameBooking(p, q)
        => slots[stf[p].slot_id].current_bookings
              = init[stf[p].slot_id].current_bookings - 1

\* ------------------------------------------------------------------ properties: slot deletion
\* C33: when a slot deletion completes, no row of bookings references the
\* deleted slot, whatever booking attempt for the slot ran meanwhile.
DeletionCompletes(p) ==
    /\ stf[p].op = "deleteSlot" /\ stf[p].pc = "ds_slot"
    /\ stf'[p].pc = "done" /\ stf'[p].resp = json(200, "")
C33_NoRowReferencesDeletedSlot ==
    [][\A p \in Staff :
          DeletionCompletes(p)
          => {b \in bookings' : b.slot_id = stf[p].slot_id} = {}]_vars

\* ------------------------------------------------------------------ properties: the two loops of generate
Step(req) == req.duration + req.breakTime
WindowStart(w) == parseTimeToMinutes(w.startTime)
WindowEnd(w) == parseTimeToMinutes(w.endTime)
Windows(req) == {ranges(req)[k] : k \in 1..Len(ranges(req))}
\* the recurring walk cannot end: month 13 is never left, and the end is in a later year
DateWalkStuck(req) ==
    /\ IsRecurring(req) /\ WellFormed(RangeStart(req)) /\ WellFormed(RangeEnd(req))
    /\ RangeStart(req).month > 12
    /\ RangeStart(req).year < RangeEnd(req).year
\* the window loop cannot end: the cursor does not advance from a start that fits
WindowWalkStuck(req) ==
    /\ Step(req) <= 0
    /\ req.lunchBreak = NoLunch
    /\ \E w \in Windows(req) : WindowStart(w) + req.duration <= WindowEnd(w)

\* the slots of handler g once its expansion has ended, as (date, minute) pairs
Expanded(g) == gen[g].pc \in {"insert", "done"} /\ Len(gen[g].slots) > 0
Emitted(g) ==
    [k \in 1..Len(gen[g].slots) |->
        [date |-> gen[g].slots[k].start_time.date,
         minute |-> Minutes(gen[g].slots[k].start_time.time)]]
RECURSIVE Flatten(_)
Flatten(ss) == IF ss = <<>> THEN <<>> ELSE Head(ss) \o Flatten(Tail(ss))
\* how many starts ws, ws + step, ... leave room for a slot before we
Count(req, ws, we) ==
    IF ws + req.duration > we \/ Step(req) <= 0 THEN 0
    ELSE (we - req.duration - ws) \div Step(req) + 1
StepsFrom(req, dateStr, ws, we) ==
    [i \in 1..Count(req, ws, we) |-> [date |-> dateStr, minute |-> ws + (i - 1) * Step(req)]]
\* per date, per window, the starts ws + i * (duration + breakTime)
SteppedStarts(g) ==
    Flatten([d \in 1..Len(gen[g].targetDateStrs) |->
        Flatten([k \in 1..Len(gen[g].ranges) |->
            StepsFrom(gen[g].req, gen[g].targetDateStrs[d],
                      WindowStart(gen[g].ranges[k]), WindowEnd(gen[g].ranges[k]))])])

C34_ExactStarts(g) == Emitted(g) = SteppedStarts(g)
\* every slot of the window starts at or after ws and ends at or before we
C34_InsideWindow(g) ==
    \A w \in Windows(gen[g].req) :
        \A i \in 1..Count(gen[g].req, WindowStart(w), WindowEnd(w)) :
            LET start == WindowStart(w) + (i - 1) * Step(gen[g].req) IN
              /\ WindowStart(w) <= start
              /\ start <= start + gen[g].req.duration
              /\ start + gen[g].req.duration <= WindowEnd(w)
\* a slot of the window ends before the next one starts
C34_NoOverlap(g) ==
    \A w \in Windows(gen[g].req) :
        Count(gen[g].req, WindowStart(w), WindowEnd(w)) >= 2
        => gen[g].req.duration <= Step(gen[g].req)

\* C34 as stated: with no lunch window the slots of every date and time window
\* start at ws + i * (duration + breakTime) while start + duration <= we, lie
\* inside the window, and consecutive slots of a window do not overlap.
C34_WindowWalk ==
    \A g \in Gens :
        Expanded(g) /\ gen[g].req.lunchBreak = NoLunch
        => C34_ExactStarts(g) /\ C34_InsideWindow(g) /\ C34_NoOverlap(g)

\* what holds of C34 for every request: the starts are those for every
\* duration and break; the slots
\* lie inside the window when the duration is not negative and do not overlap
\* when the break is not negative.
C34_WindowWalkByStep ==
    \A g \in Gens :
        Expanded(g) /\ gen[g].req.lunchBreak = NoLunch
        => /\ C34_ExactStarts(g)
           /\ gen[g].req.duration >= 0 => C34_InsideWindow(g)
           /\ gen[g].req.breakTime >= 0 => C34_NoOverlap(g)

\* slotStart < lunchEnd AND slotEnd > lunchStart, for the lunch window as sent
Overlaps(req, c) ==
    /\ c < parseTimeToMinutes(req.lunchBreak.end)
    /\ c + req.duration > parseTimeToMinutes(req.lunchBreak.start)
\* the first candidate ws + i * step that does not fit or overlaps the lunch window
Blocked(req, ws, we, i) ==
    \/ ws + i * Step(req) + req.duration > we
    \/ Overlaps(req, ws + i * Step(req))
FirstBlocked(req, ws, we) ==
    CHOOSE i \in 0..MaxLoop :
        Blocked(req, ws, we, i) /\ \A j \in 0..(i - 1) : ~Blocked(req, ws, we, j)
\* a window's starts: in steps from ws up to the first candidate that overlaps
\* the lunch window, then in steps from lunchEnd
ResumedStarts(req, dateStr, ws, we) ==
    LET n == FirstBlocked(req, ws, we)
        c == ws + n * Step(req)
    IN [i \in 1..n |-> [date |-> dateStr, minute |-> ws + (i - 1) * Step(req)]]
       \o (IF c + req.duration <= we
           THEN StepsFrom(req, dateStr, parseTimeToMinutes(req.lunchBreak.end), we)
           ELSE <<>>)
ResumedAll(g) ==
    Flatten([d \in 1..Len(gen[g].targetDateStrs) |->
        Flatten([k \in 1..Len(gen[g].ranges) |->
            ResumedStarts(gen[g].req, gen[g].targetDateStrs[d],
                          WindowStart(gen[g].ranges[k]), WindowEnd(gen[g].ranges[k]))])])

\* C35: when a candidate slot overlaps the lunch window the walk goes on from
\* lunchEnd, never backwards, and the later slots of the window start at
\* lunchEnd + j * (duration + breakTime).
C35_ResumeAtLunchEnd ==
    \A g \in Gens :
        Expanded(g) /\ lunchGiven(gen[g].req.lunchBreak)
        => Emitted(g) = ResumedAll(g)

\* ------------------------------------------------------------------ properties: getDayOfWeek
\* C36: getDayOfWeek gives the weekday of the proleptic Gregorian calendar,
\* 0 = Sunday .. 6 = Saturday, for every day of the years of WeekdayYears,
\* January, February and century years included: a request for one day and one
\* weekday keeps the day exactly when it is that weekday.
AsksWeekday(g) == GenStarted(g) /\ gen[g].req \in WeekdayBodies
C36_TrueWeekday ==
    \A g \in Gens :
        AsksWeekday(g)
        => LET d == gen[g].req.startDate IN
             /\ IsCalendarDate(d)
             /\ getDayOfWeek(d.year, d.month, d.day) = Weekday(d)
             /\ (gen[g].targetDateStrs = <<d>>) = (Weekday(d) = gen[g].req.days[1])
             /\ (gen[g].targetDateStrs = <<>>) = (Weekday(d) # gen[g].req.days[1])

\* 2024-02-29 was kept as a Thursday, 2000-01-01 as a Saturday, 1900-03-01 as a Thursday
C36_Kept(g, d, w) ==
    /\ AsksWeekday(g) /\ gen[g].req.startDate = d /\ gen[g].req.days = <<w>>
    /\ gen[g].targetDateStrs = <<d>> /\ Len(gen[g].slots) = 2
C36_Witness ==
    \E g \in Gens :
        \/ C36_Kept(g, D(2024, 2, 29), 4)
        \/ C36_Kept(g, D(2000, 1, 1), 6)
        \/ C36_Kept(g, D(1900, 3, 1), 4)

\* ------------------------------------------------------------------ properties: termination of generate
\* C37: a generate request that passes its checks ends with a response, for
\* every integer duration and breakTime and every pair of window times or
\* range dates: neither the date walk nor a window's while loop runs forever.
Stuck(g) ==
    /\ gen[g].pc = "hung"
    /\ DateWalkStuck(gen[g].req) \/ WindowWalkStuck(gen[g].req)
C37_GenerateTerminates == \A g \in Gens : ~Stuck(g)

\* ------------------------------------------------------------------ properties: the success modal
\* C38: showSuccess becomes true only in the step in which the createBooking
\* call of the running submitBooking resolves with success (the server took a
\* seat); no failed check, rejection or failed request sets it; and once true
\* it becomes false only by reset.
CreateResolves ==
    /\ cli.s.pc = "create" /\ cli.s.called /\ cli.isLoading
    /\ cli'.s.status = 200
    /\ slots'[cli.s.slotId].current_bookings = slots[cli.s.slotId].current_bookings + 1
IsReset ==
    /\ cli'.step = FACULTY /\ ~cli'.subject /\ cli'.slot = NoSel /\ cli'.slots = NoList
C38_SuccessOnlyAfterBooking ==
    [][/\ (~cli.showSuccess /\ cli'.showSuccess) => CreateResolves
       /\ (cli.showSuccess /\ ~cli'.showSuccess) => IsReset
       /\ (cli.s.pc = "create" /\ cli'.s.status # 200) => cli'.showSuccess = cli.showSuccess
       /\ cli.s.pc \in {"check", "refresh", "catch"} => cli'.showSuccess = cli.showSuccess]_vars

\* the modal is shown after a booking that followed a rejected one
C38_Witness ==
    /\ cli.showSuccess /\ cli.s.status = 200 /\ ~cli.isLoading
    /\ faults > 0

\* ------------------------------------------------------------------ properties: the busy flags
\* C39: when every pending call settles, an isLoading set by submitBooking is
\* set back to false, and an isValidating set by validateAndContinue is set
\* back to false, whatever the calls return or throw.
C39_FlagsReset ==
    /\ cli.isLoading ~> ~cli.isLoading
    /\ cli.isValidating ~> ~cli.isValidating

\* both flags are down again after calls that threw
C39_Witness ==
    /\ ~cli.isLoading /\ ~cli.isValidating
    /\ cli.s.pc = "idle" /\ cli.s.status = 500
    /\ cli.v.pc = "idle" /\ cli.v.seen = "failed"

====
